---- MODULE Spec2Model ----
(***************************************************************************)
(* Todo-list REST backend: signup/login, per-user task lists, tasks in     *)
(* lists, and the task filter.  The store (users, task lists, tasks) is    *)
(* the state; every route handler is one action that consumes a request    *)
(* and leaves its response in resp.                                        *)
(*                                                                         *)
(* Strings are sequences of one-character strings.  An optional value      *)
(* (a body field, a query parameter, an optional stored field) is a        *)
(* sequence of length 0 (undefined) or 1 (the value).                      *)
(***************************************************************************)
EXTENDS Integers, Sequences, FiniteSets, TLC

VARIABLES users, taskLists, tasks, nextUserId, nextListId, nextTaskId,
          now, tz, signups, deletes, creates, toggles, serverless, clients,
          req, resp

vars == <<users, taskLists, tasks, nextUserId, nextListId, nextTaskId,
          now, tz, signups, deletes, creates, toggles, serverless, clients,
          req, resp>>

(***************************************************************************)
(* Bounds of the model.                                                    *)
(***************************************************************************)
MaxLists == 1
MaxTasks == 1
MaxUsers == 2
MaxTime == 26

None == <<>>
Some(v) == <<v>>
IsSome(o) == o # <<>>
Val(o) == o[1]

Range(s) == {s[i] : i \in 1..Len(s)}

(***************************************************************************)
(* Responses.  A controller answers res.status(s).json(body); a thrown     *)
(* ApiError goes through next(error) to the error handler, which answers   *)
(* error.statusCode with { success: false, error: error.message }.         *)
(***************************************************************************)
ErrorResponse(statusCode, message) ==
    [status |-> statusCode, success |-> FALSE, text |-> message,
     count |-> None, data |-> None]

\* data is the sequence of returned documents: one for an entity, the sorted
\* array (with count) for a collection, empty when the body carries no data.
SuccessResponse(statusCode, message, data) ==
    [status |-> statusCode, success |-> TRUE, text |-> message,
     count |-> None, data |-> data]

ArrayResponse(docs) ==
    [status |-> 200, success |-> TRUE, text |-> "",
     count |-> Some(Len(docs)), data |-> docs]

\* An error without statusCode (a storage failure) is answered 500; a schema
\* validation failure is answered 400.
InternalError == ErrorResponse(500, "Internal server error")
ValidationError == ErrorResponse(400, "Validation failed")

NoResponse == ErrorResponse(0, "")

(***************************************************************************)
(* The serverless entry point.  serverless is the state of the process:    *)
(* the flag dbInitialized, the number of connectDatabase calls made and    *)
(* failed, the routes of the requests that wait in initDatabase for        *)
(* connectDatabase, and whether process.exit has been called.              *)
(***************************************************************************)
ColdStart ==
    [dbInitialized |-> FALSE, connectCalls |-> 0, failures |-> 0,
     pending |-> <<>>, exited |-> FALSE]

\* res.status(500).json({ success: false, error: 'Database connection failed' })
DatabaseFailed ==
    [status |-> 500, success |-> FALSE, text |-> "Database connection failed",
     count |-> None, data |-> None]

(***************************************************************************)
(* Tokens.  generateToken signs { userId } with the server secret and      *)
(* expiresIn '24h'; time is counted in hours.                              *)
(***************************************************************************)
TokenTTL == 24

generateTokenShort(userId, t) ==
    [userId |-> userId, iat |-> t, exp |-> t + 1, sig |-> "server"]

generateToken(userId, t) ==
    [userId |-> userId, iat |-> t, exp |-> t + TokenTTL, sig |-> "server"]

\* A token signed with another secret.
ForgedToken(userId, t) ==
    [userId |-> userId, iat |-> t, exp |-> t + TokenTTL, sig |-> "other"]

\* The Authorization header: absent, not a well-formed bearer token, or a token.
MissingHeader == [kind |-> "missing", token |-> None]
MalformedHeader == [kind |-> "malformed", token |-> None]
Bearer(tok) == [kind |-> "bearer", token |-> Some(tok)]

\* jwt.verify: the signature must be the server's and the clock before exp.
verifyAccept(tok, t) == tok.sig = "server" /\ t < tok.exp

\* authenticate: the user id the request acts as, or None (401).
authenticate(header, t) ==
    IF header.kind = "bearer" /\ verifyAccept(Val(header.token), t)
    THEN Some(Val(header.token).userId) ELSE None

Unauthenticated == ErrorResponse(401, "Unauthenticated")

(***************************************************************************)
(* Schema helpers (Mongoose): trim, maxlength, match, enum, default.       *)
(***************************************************************************)
NameMaxLen == 100
ListDescMaxLen == 500
TitleMaxLen == 200
TaskDescMaxLen == 1000
MaxTags == 10

RECURSIVE TrimLeft(_)
TrimLeft(s) == IF s # <<>> /\ Head(s) = " " THEN TrimLeft(Tail(s)) ELSE s

RECURSIVE TrimRight(_)
TrimRight(s) ==
    IF s # <<>> /\ s[Len(s)] = " " THEN TrimRight(SubSeq(s, 1, Len(s) - 1)) ELSE s

Trim(s) == TrimRight(TrimLeft(s))

TrimOpt(o) == IF IsSome(o) THEN Some(Trim(Val(o))) ELSE None

HexDigits == {"0", "1", "2", "3", "4", "5", "6", "7", "8", "9",
              "a", "b", "c", "d", "e", "f", "A", "B", "C", "D", "E", "F"}

\* /^#[0-9A-Fa-f]{6}$/
IsHexColor(s) ==
    /\ Len(s) = 7
    /\ s[1] = "#"
    /\ \A i \in 2..7 : s[i] \in HexDigits

Priorities == {<<"l", "o", "w">>, <<"m", "e", "d", "i", "u", "m">>, <<"h", "i", "g", "h">>}
Low == <<"l", "o", "w">>
Medium == <<"m", "e", "d", "i", "u", "m">>
High == <<"h", "i", "g", "h">>

\* The JSON value null where a body carries it in place of a string.
JsonNull == <<"null">>

\* Documents sorted by { createdAt: -1 }: ids are allocated in creation order.
RECURSIVE SortNewestFirst(_)
SortNewestFirst(S) ==
    IF S = {} THEN <<>>
    ELSE LET d == CHOOSE x \in S : \A y \in S : y.id <= x.id
         IN <<d>> \o SortNewestFirst(S \ {d})

(***************************************************************************)
(* Task lists.  A stored list is [id, userId, name, description, color];   *)
(* a body is [name, description, color], each optional.  A handler maps    *)
(* the collections and the request to the response and the collections     *)
(* after it.                                                               *)
(***************************************************************************)
Out(r, L, T) == [resp |-> r, taskLists |-> L, tasks |-> T]

\* TaskList.findOne({ _id: id, userId: uid })
FindOwnedListAnyOwner(L, id, uid) == {l \in L : l.id = id}
FindOwnedList(L, id, uid) == {l \in L : l.id = id /\ l.userId = uid}

ListNameValid(o) == IsSome(o) => (Val(o) # <<>> /\ Len(Val(o)) <= NameMaxLen)
ListDescValid(o) == IsSome(o) => Len(Val(o)) <= ListDescMaxLen
ListColorValid(o) == (IsSome(o) /\ Val(o) # <<>>) => IsHexColor(Val(o))

\* The validators of taskListSchema on the (trimmed) paths that are set.
ListPathsValid(name, description, color) ==
    ListNameValid(name) /\ ListDescValid(description) /\ ListColorValid(color)

getAllTaskLists(L, T, uid) ==
    Out(ArrayResponse(SortNewestFirst({l \in L : l.userId = uid})), L, T)

getTaskListById(L, T, uid, id) ==
    LET found == FindOwnedList(L, id, uid)
    IN IF found = {}
       THEN Out(ErrorResponse(404, "Task list not found"), L, T)
       ELSE Out(SuccessResponse(200, "", <<CHOOSE l \in found : TRUE>>), L, T)

createTaskList(L, T, uid, newId, body) ==
    IF body.name = None \/ Val(body.name) = <<>>
    THEN Out(ErrorResponse(400, "Task list name is required"), L, T)
    ELSE LET doc == [id |-> newId, userId |-> uid,
                     name |-> Trim(Val(body.name)),
                     description |-> TrimOpt(body.description),
                     color |-> TrimOpt(body.color)]
         IN IF ~ListPathsValid(Some(doc.name), doc.description, doc.color)
            THEN Out(ValidationError, L, T)
            ELSE Out(SuccessResponse(201, "Task list created successfully", <<doc>>),
                     L \cup {doc}, T)

\* findOneAndUpdate(filter, { name, description, color }, { new, runValidators }):
\* undefined keys are dropped from the update, validators run on the rest.
updateTaskList(L, T, uid, id, body) ==
    LET name == TrimOpt(body.name)
        description == TrimOpt(body.description)
        color == TrimOpt(body.color)
        found == FindOwnedList(L, id, uid)
    IN IF ~ListPathsValid(name, description, color)
       THEN Out(ValidationError, L, T)
       ELSE IF found = {}
       THEN Out(ErrorResponse(404, "Task list not found"), L, T)
       ELSE LET old == CHOOSE l \in found : TRUE
                new == [old EXCEPT
                          !.name = IF IsSome(name) THEN Val(name) ELSE @,
                          !.description = IF IsSome(description) THEN description ELSE @,
                          !.color = IF IsSome(color) THEN color ELSE @]
            IN Out(SuccessResponse(200, "Task list updated successfully", <<new>>),
                   (L \ {old}) \cup {new}, T)

\* findOneAndDelete, then Task.deleteMany({ taskListId: id }); deleteManyFails
\* is the storage rejecting the second call.
deleteTaskListKeepTasks(L, T, uid, id, deleteManyFails) ==
    LET found == FindOwnedList(L, id, uid)
    IN IF found = {}
       THEN Out(ErrorResponse(404, "Task list not found"), L, T)
       ELSE Out(SuccessResponse(200, "Task list deleted successfully", None),
                L \ found, T)
deleteTaskList(L, T, uid, id, deleteManyFails) ==
    LET found == FindOwnedList(L, id, uid)
    IN IF found = {}
       THEN Out(ErrorResponse(404, "Task list not found"), L, T)
       ELSE IF deleteManyFails
       THEN Out(InternalError, L \ found, T)
       ELSE Out(SuccessResponse(200, "Task list deleted successfully", None),
                L \ found, {t \in T : t.taskListId # id})

\* TaskList.findOneAndDelete({ _id: id, userId: uid }): one storage operation
\* that looks the list up under both conditions and removes what it found.
findOneAndDeleteKeepsList(L, id, uid) ==
    [found |-> FindOwnedList(L, id, uid), taskLists |-> L]
findOneAndDelete(L, id, uid) ==
    LET found == FindOwnedList(L, id, uid)
    IN [found |-> found, taskLists |-> L \ found]

\* deleteTaskList up to its first await: answered 404 there, or left waiting
\* for Task.deleteMany with the list already removed (resp is NoResponse).
deleteTaskListBegin(L, T, uid, id) ==
    LET r == findOneAndDelete(L, id, uid)
    IN IF r.found = {}
       THEN Out(ErrorResponse(404, "Task list not found"), L, T)
       ELSE Out(NoResponse, r.taskLists, T)

\* Task.deleteMany({ taskListId: id }) of a waiting deleteTaskList, and its
\* answer.
deleteTaskListFinishSwallows(L, T, id, deleteManyFails) ==
    Out(SuccessResponse(200, "Task list deleted successfully", None),
        L, IF deleteManyFails THEN T ELSE {t \in T : t.taskListId # id})
deleteTaskListFinish(L, T, id, deleteManyFails) ==
    IF deleteManyFails
    THEN Out(InternalError, L, T)
    ELSE Out(SuccessResponse(200, "Task list deleted successfully", None),
             L, {t \in T : t.taskListId # id})

(***************************************************************************)
(* Dates.  An instant is an integer number of ticks; a calendar day has    *)
(* DayLen ticks.  A date input is what a client sends: a date-only string  *)
(* (parsed as UTC midnight of that day), a full timestamp, an unparseable  *)
(* string, or an empty value.                                              *)
(***************************************************************************)
DayLen == 4

DateOnly(day) == [kind |-> "date", v |-> day]
Timestamp(t) == [kind |-> "instant", v |-> t]
InvalidDate == [kind |-> "invalid", v |-> 0]
EmptyDate == [kind |-> "empty", v |-> 0]

\* d ? ... : a non-empty string is truthy
DateTruthy(d) == d.kind # "empty"

\* new Date(d): the instant, or None for Invalid Date (getTime() is NaN)
NewDate(d) ==
    CASE d.kind = "date" -> Some(d.v * DayLen)
      [] d.kind = "instant" -> Some(d.v)
      [] OTHER -> None

(***************************************************************************)
(* Tasks.  A stored task is [id, taskListId, title, description,           *)
(* completed, priority, dueDate, tags]; a body is [taskListId, title,      *)
(* description, completed, priority, dueDate, tags], each optional.        *)
(***************************************************************************)
\* Task.findById(id)
FindTask(T, id) == {t \in T : t.id = id}

\* The second hop: TaskList.findOne({ _id: task.taskListId, userId: uid })
TaskListOfTaskNoHop(L, task, uid) == {l \in L : l.id = task.taskListId}
TaskListOfTask(L, task, uid) == FindOwnedList(L, task.taskListId, uid)

\* The validators of taskSchema, run by task.save().  Of the validators only
\* required runs on a path that holds null: the enum of priority accepts it.
TaskValid(doc) ==
    /\ doc.title # <<>>
    /\ Len(doc.title) <= TitleMaxLen
    /\ IsSome(doc.description) => Len(Val(doc.description)) <= TaskDescMaxLen
    /\ doc.priority \in Priorities \cup {JsonNull}
    /\ Len(doc.tags) <= MaxTags

\* The error thrown when findById finds nothing, and the one thrown when the
\* parent list is not the requester's.
TaskNotFound == ErrorResponse(404, "Task not found")
TaskForbidden == ErrorResponse(403, "Forbidden")
TaskNotOwned == ErrorResponse(404, "Task not found")

getTaskById(L, T, uid, id) ==
    LET found == FindTask(T, id)
    IN IF found = {} THEN Out(TaskNotFound, L, T)
       ELSE LET task == CHOOSE t \in found : TRUE
            IN IF TaskListOfTask(L, task, uid) = {} THEN Out(TaskNotOwned, L, T)
               ELSE Out(SuccessResponse(200, "", <<task>>), L, T)

\* new Task({ taskListId, title, description, priority: priority || 'medium',
\*            dueDate: dueDate ? new Date(dueDate) : undefined, tags: tags || [] })
\* with the schema's setters and defaults applied; completed is not taken
\* from the body.
NewTaskCompletedFromBody(newId, body) ==
    [id |-> newId,
     taskListId |-> Val(body.taskListId),
     title |-> Trim(Val(body.title)),
     description |-> TrimOpt(body.description),
     completed |-> IF IsSome(body.completed) THEN Val(body.completed) ELSE FALSE,
     priority |-> IF IsSome(body.priority) /\ Val(body.priority) \notin {<<>>, JsonNull}
                  THEN Val(body.priority) ELSE Medium,
     dueDate |-> IF IsSome(body.dueDate) /\ DateTruthy(Val(body.dueDate))
                 THEN NewDate(Val(body.dueDate)) ELSE None,
     tags |-> IF IsSome(body.tags) THEN Val(body.tags) ELSE <<>>]
NewTask(newId, body) ==
    [id |-> newId,
     taskListId |-> Val(body.taskListId),
     title |-> Trim(Val(body.title)),
     description |-> TrimOpt(body.description),
     completed |-> FALSE,
     priority |-> IF IsSome(body.priority) /\ Val(body.priority) \notin {<<>>, JsonNull}
                  THEN Val(body.priority) ELSE Medium,
     dueDate |-> IF IsSome(body.dueDate) /\ DateTruthy(Val(body.dueDate))
                 THEN NewDate(Val(body.dueDate)) ELSE None,
     tags |-> IF IsSome(body.tags) THEN Val(body.tags) ELSE <<>>]

createTaskLookupFirst(L, T, uid, newId, body) ==
    IF body.taskListId = None
    THEN Out(ErrorResponse(400, "Task list ID and title are required"), L, T)
    ELSE IF FindOwnedList(L, Val(body.taskListId), uid) = {}
    THEN Out(ErrorResponse(404, "Task list not found"), L, T)
    ELSE IF body.title = None \/ Val(body.title) = <<>>
    THEN Out(ErrorResponse(400, "Task list ID and title are required"), L, T)
    ELSE LET due == IF IsSome(body.dueDate) /\ DateTruthy(Val(body.dueDate))
                    THEN Some(Val(body.dueDate)) ELSE None
             doc == NewTask(newId, body)
         IN IF ~TaskValid(doc) \/ (IsSome(due) /\ NewDate(Val(due)) = None)
            THEN Out(ValidationError, L, T)
            ELSE Out(SuccessResponse(201, "Task created successfully", <<doc>>),
                     L, T \cup {doc})
createTask(L, T, uid, newId, body) ==
    IF \/ body.taskListId = None
       \/ body.title = None \/ Val(body.title) = <<>>
    THEN Out(ErrorResponse(400, "Task list ID and title are required"), L, T)
    ELSE IF FindOwnedList(L, Val(body.taskListId), uid) = {}
    THEN Out(ErrorResponse(404, "Task list not found"), L, T)
    ELSE LET due == IF IsSome(body.dueDate) /\ DateTruthy(Val(body.dueDate))
                    THEN Some(Val(body.dueDate)) ELSE None
             doc == NewTask(newId, body)
         IN IF ~TaskValid(doc) \/ (IsSome(due) /\ NewDate(Val(due)) = None)
            THEN Out(ValidationError, L, T)
            ELSE Out(SuccessResponse(201, "Task created successfully", <<doc>>),
                     L, T \cup {doc})

\* createTask up to the await of TaskList.findOne: the response when the
\* request ends there, or None when it goes on to task.save().
createTaskBegin(L, uid, body) ==
    IF \/ body.taskListId = None
       \/ body.title = None \/ Val(body.title) = <<>>
    THEN Some(ErrorResponse(400, "Task list ID and title are required"))
    ELSE IF FindOwnedList(L, Val(body.taskListId), uid) = {}
    THEN Some(ErrorResponse(404, "Task list not found"))
    ELSE None

\* new Task({...}), task.save() of a waiting createTask, and its answer; the
\* task list is not read again.
createTaskSave(L, T, newId, body) ==
    LET due == IF IsSome(body.dueDate) /\ DateTruthy(Val(body.dueDate))
               THEN Some(Val(body.dueDate)) ELSE None
        doc == NewTask(newId, body)
    IN IF ~TaskValid(doc) \/ (IsSome(due) /\ NewDate(Val(due)) = None)
       THEN Out(ValidationError, L, T)
       ELSE Out(SuccessResponse(201, "Task created successfully", <<doc>>),
                L, T \cup {doc})

updateTaskMovesTask(L, T, uid, id, body) ==
    LET found == FindTask(T, id)
    IN IF found = {} THEN Out(TaskNotFound, L, T)
       ELSE LET task == CHOOSE t \in found : TRUE
                due == IF IsSome(body.dueDate) /\ DateTruthy(Val(body.dueDate))
                       THEN Some(Val(body.dueDate)) ELSE None
                new == [task EXCEPT
                          !.taskListId = IF IsSome(body.taskListId)
                                         THEN Val(body.taskListId) ELSE @,
                          !.title = IF IsSome(body.title) THEN Trim(Val(body.title)) ELSE @,
                          !.description = IF IsSome(body.description)
                                          THEN TrimOpt(body.description) ELSE @,
                          !.completed = IF IsSome(body.completed)
                                        THEN Val(body.completed) ELSE @,
                          !.priority = IF IsSome(body.priority)
                                       THEN Val(body.priority) ELSE @,
                          !.dueDate = IF IsSome(body.dueDate)
                                      THEN (IF IsSome(due) THEN NewDate(Val(due)) ELSE None)
                                      ELSE @,
                          !.tags = IF IsSome(body.tags) THEN Val(body.tags) ELSE @]
            IN IF TaskListOfTask(L, task, uid) = {} THEN Out(TaskNotOwned, L, T)
               ELSE IF ~TaskValid(new) \/ (IsSome(due) /\ NewDate(Val(due)) = None)
               THEN Out(ValidationError, L, T)
               ELSE Out(SuccessResponse(200, "Task updated successfully", <<new>>),
                        L, (T \ {task}) \cup {new})
updateTaskResetsPriority(L, T, uid, id, body) ==
    LET found == FindTask(T, id)
    IN IF found = {} THEN Out(TaskNotFound, L, T)
       ELSE LET task == CHOOSE t \in found : TRUE
                due == IF IsSome(body.dueDate) /\ DateTruthy(Val(body.dueDate))
                       THEN Some(Val(body.dueDate)) ELSE None
                new == [task EXCEPT
                          !.title = IF IsSome(body.title) THEN Trim(Val(body.title)) ELSE @,
                          !.description = IF IsSome(body.description)
                                          THEN TrimOpt(body.description) ELSE @,
                          !.completed = IF IsSome(body.completed)
                                        THEN Val(body.completed) ELSE @,
                          !.priority = IF IsSome(body.priority)
                                       THEN Val(body.priority) ELSE Medium,
                          !.dueDate = IF IsSome(body.dueDate)
                                      THEN (IF IsSome(due) THEN NewDate(Val(due)) ELSE None)
                                      ELSE @,
                          !.tags = IF IsSome(body.tags) THEN Val(body.tags) ELSE @]
            IN IF TaskListOfTask(L, task, uid) = {} THEN Out(TaskNotOwned, L, T)
               ELSE IF ~TaskValid(new) \/ (IsSome(due) /\ NewDate(Val(due)) = None)
               THEN Out(ValidationError, L, T)
               ELSE Out(SuccessResponse(200, "Task updated successfully", <<new>>),
                        L, (T \ {task}) \cup {new})
updateTask(L, T, uid, id, body) ==
    LET found == FindTask(T, id)
    IN IF found = {} THEN Out(TaskNotFound, L, T)
       ELSE LET task == CHOOSE t \in found : TRUE
                due == IF IsSome(body.dueDate) /\ DateTruthy(Val(body.dueDate))
                       THEN Some(Val(body.dueDate)) ELSE None
                new == [task EXCEPT
                          !.title = IF IsSome(body.title) THEN Trim(Val(body.title)) ELSE @,
                          !.description = IF IsSome(body.description)
                                          THEN TrimOpt(body.description) ELSE @,
                          !.completed = IF IsSome(body.completed)
                                        THEN Val(body.completed) ELSE @,
                          !.priority = IF IsSome(body.priority)
                                       THEN Val(body.priority) ELSE @,
                          !.dueDate = IF IsSome(body.dueDate)
                                      THEN (IF IsSome(due) THEN NewDate(Val(due)) ELSE None)
                                      ELSE @,
                          !.tags = IF IsSome(body.tags) THEN Val(body.tags) ELSE @]
            IN IF TaskListOfTask(L, task, uid) = {} THEN Out(TaskNotOwned, L, T)
               ELSE IF ~TaskValid(new) \/ (IsSome(due) /\ NewDate(Val(due)) = None)
               THEN Out(ValidationError, L, T)
               ELSE Out(SuccessResponse(200, "Task updated successfully", <<new>>),
                        L, (T \ {task}) \cup {new})

\* task.completed = !task.completed; task.save()
toggleTaskMarksCompleted(L, T, uid, id) ==
    LET found == FindTask(T, id)
    IN IF found = {} THEN Out(TaskNotFound, L, T)
       ELSE LET task == CHOOSE t \in found : TRUE
                new == [task EXCEPT !.completed = TRUE]
            IN IF TaskListOfTask(L, task, uid) = {} THEN Out(TaskNotOwned, L, T)
               ELSE Out(SuccessResponse(200,
                            IF new.completed THEN "Task completed" ELSE "Task uncompleted",
                            <<new>>),
                        L, (T \ {task}) \cup {new})
toggleTask(L, T, uid, id) ==
    LET found == FindTask(T, id)
    IN IF found = {} THEN Out(TaskNotFound, L, T)
       ELSE LET task == CHOOSE t \in found : TRUE
                new == [task EXCEPT !.completed = ~@]
            IN IF TaskListOfTask(L, task, uid) = {} THEN Out(TaskNotOwned, L, T)
               ELSE Out(SuccessResponse(200,
                            IF new.completed THEN "Task completed" ELSE "Task uncompleted",
                            <<new>>),
                        L, (T \ {task}) \cup {new})

\* toggleTask up to its second await, Task.findById and TaskList.findOne: the
\* response when the request ends there, or None when it goes on to flip
\* the document it read and save it.
toggleTaskBegin(L, T, uid, id) ==
    LET found == FindTask(T, id)
    IN IF found = {} THEN Some(TaskNotFound)
       ELSE IF TaskListOfTask(L, CHOOSE t \in found : TRUE, uid) = {}
       THEN Some(TaskNotOwned)
       ELSE None

\* task.completed = !task.completed on the document as it was read, then
\* task.save(), which writes the modified path completed to the stored
\* document and rejects when the document is gone.
toggleTaskSave(L, T, id, read) ==
    LET found == FindTask(T, id)
    IN IF found = {} THEN Out(InternalError, L, T)
       ELSE LET task == CHOOSE t \in found : TRUE
                new == [task EXCEPT !.completed = ~read.completed]
            IN Out(SuccessResponse(200,
                       IF new.completed THEN "Task completed" ELSE "Task uncompleted",
                       <<[read EXCEPT !.completed = ~@]>>),
                   L, (T \ {task}) \cup {new})

deleteTaskRemovesSiblings(L, T, uid, id) ==
    LET found == FindTask(T, id)
    IN IF found = {} THEN Out(TaskNotFound, L, T)
       ELSE LET task == CHOOSE t \in found : TRUE
            IN IF TaskListOfTask(L, task, uid) = {} THEN Out(TaskNotOwned, L, T)
               ELSE Out(SuccessResponse(200, "Task deleted successfully", None),
                        L, {t \in T : t.taskListId # task.taskListId})
deleteTask(L, T, uid, id) ==
    LET found == FindTask(T, id)
    IN IF found = {} THEN Out(TaskNotFound, L, T)
       ELSE LET task == CHOOSE t \in found : TRUE
            IN IF TaskListOfTask(L, task, uid) = {} THEN Out(TaskNotOwned, L, T)
               ELSE Out(SuccessResponse(200, "Task deleted successfully", None),
                        L, T \ {task})

(***************************************************************************)
(* The task filter.  The query parameters are [taskListId, completed,      *)
(* priority, tags, dueDate, search], each optional; getTasks builds a      *)
(* query document from them and Task.find evaluates it.                    *)
(***************************************************************************)
StrTrue == <<"t", "r", "u", "e">>
StrFalse == <<"f", "a", "l", "s", "e">>

\* s.split(sep)
RECURSIVE SplitFrom(_, _, _)
SplitFrom(s, sep, cur) ==
    IF s = <<>> THEN <<cur>>
    ELSE IF Head(s) = sep THEN <<cur>> \o SplitFrom(Tail(s), sep, <<>>)
    ELSE SplitFrom(Tail(s), sep, Append(cur, Head(s)))
Split(s, sep) == SplitFrom(s, sep, <<>>)

UpperCase == <<"A", "B", "C", "D", "E", "F", "G", "H", "I", "J", "K", "L", "M",
               "N", "O", "P", "Q", "R", "S", "T", "U", "V", "W", "X", "Y", "Z">>
LowerCase == <<"a", "b", "c", "d", "e", "f", "g", "h", "i", "j", "k", "l", "m",
               "n", "o", "p", "q", "r", "s", "t", "u", "v", "w", "x", "y", "z">>
Lower(c) ==
    IF \E i \in 1..26 : UpperCase[i] = c
    THEN LowerCase[CHOOSE i \in 1..26 : UpperCase[i] = c]
    ELSE c

\* { $regex: pattern, $options: 'i' }: an unanchored, case-insensitive regular
\* expression; "." matches any character, every other character itself.
RegexCharMatches(p, c) == p = "." \/ Lower(p) = Lower(c)
RegexMatches(pattern, text) ==
    \E i \in 1..(Len(text) - Len(pattern) + 1) :
        \A j \in 1..Len(pattern) : RegexCharMatches(pattern[j], text[i + j - 1])

\* setHours(0, 0, 0, 0) and setHours(23, 59, 59, 999) in the server's time
\* zone, whose local time is UTC + offset.
StartOfDay(t, offset) == ((t + offset) \div DayLen) * DayLen - offset
EndOfDay(t, offset) == StartOfDay(t, offset) + DayLen - 1

\* completed !== undefined: query.completed = completed === 'true'
CompletedKeyIfTruthy(q) ==
    IF IsSome(q.completed) /\ Val(q.completed) # <<>>
    THEN Some(Val(q.completed) = StrTrue) ELSE None
CompletedKey(q) ==
    IF IsSome(q.completed) THEN Some(Val(q.completed) = StrTrue) ELSE None

\* if (priority) query.priority = priority
PriorityKey(q) ==
    IF IsSome(q.priority) /\ Val(q.priority) # <<>> THEN q.priority ELSE None

\* if (tags) query.tags = { $in: tagString.split(',').map(tag => tag.trim()) }
TagsKeyUntrimmed(q) ==
    IF IsSome(q.tags) /\ Val(q.tags) # <<>>
    THEN Some(Range(Split(Val(q.tags), ","))) ELSE None
TagsKey(q) ==
    IF IsSome(q.tags) /\ Val(q.tags) # <<>>
    THEN Some({Trim(e) : e \in Range(Split(Val(q.tags), ","))}) ELSE None

\* if (dueDate) { date = new Date(dueDate); if (!isNaN(date.getTime()))
\*   query.dueDate = { $gte: startOfDay, $lte: endOfDay } }
DueDateKeyInvalidMatchesNothing(q, offset) ==
    IF IsSome(q.dueDate) /\ DateTruthy(Val(q.dueDate))
    THEN IF IsSome(NewDate(Val(q.dueDate)))
         THEN Some([gte |-> StartOfDay(Val(NewDate(Val(q.dueDate))), offset),
                    lte |-> EndOfDay(Val(NewDate(Val(q.dueDate))), offset)])
         ELSE Some([gte |-> 1, lte |-> 0])
    ELSE None
DueDateKey(q, offset) ==
    IF IsSome(q.dueDate) /\ DateTruthy(Val(q.dueDate))
          /\ IsSome(NewDate(Val(q.dueDate)))
    THEN Some([gte |-> StartOfDay(Val(NewDate(Val(q.dueDate))), offset),
               lte |-> EndOfDay(Val(NewDate(Val(q.dueDate))), offset)])
    ELSE None

\* if (search) query.$or = [{ title: { $regex } }, { description: { $regex } }]
SearchKey(q) ==
    IF IsSome(q.search) /\ Val(q.search) # <<>> THEN q.search ELSE None

\* The query document; an absent key is None.
BuildQuery(scope, q, offset) ==
    [taskListId |-> scope,
     completed |-> CompletedKey(q),
     priority |-> PriorityKey(q),
     tags |-> TagsKey(q),
     dueDate |-> DueDateKey(q, offset),
     or |-> SearchKey(q)]

\* The keys of the query document combined with $or instead of $and.
MatchesAnyKey(query, t) ==
    /\ t.taskListId \in query.taskListId
    /\ \/ \A k \in {"completed", "priority", "tags", "dueDate", "or"} : query[k] = None
       \/ IsSome(query.completed) /\ t.completed = Val(query.completed)
       \/ IsSome(query.priority) /\ t.priority = Val(query.priority)
       \/ IsSome(query.tags) /\ Range(t.tags) \cap Val(query.tags) # {}
       \/ /\ IsSome(query.dueDate)
          /\ IsSome(t.dueDate)
          /\ Val(t.dueDate) >= Val(query.dueDate).gte
          /\ Val(t.dueDate) <= Val(query.dueDate).lte
       \/ /\ IsSome(query.or)
          /\ \/ RegexMatches(Val(query.or), t.title)
             \/ IsSome(t.description) /\ RegexMatches(Val(query.or), Val(t.description))

\* Whether a task matches the query document: every key present must match.
Matches(query, t) ==
    /\ t.taskListId \in query.taskListId
    /\ IsSome(query.completed) => t.completed = Val(query.completed)
    /\ IsSome(query.priority) => t.priority = Val(query.priority)
    /\ IsSome(query.tags) => Range(t.tags) \cap Val(query.tags) # {}
    /\ IsSome(query.dueDate) =>
          /\ IsSome(t.dueDate)
          /\ Val(t.dueDate) >= Val(query.dueDate).gte
          /\ Val(t.dueDate) <= Val(query.dueDate).lte
    /\ IsSome(query.or) =>
          \/ RegexMatches(Val(query.or), t.title)
          \/ IsSome(t.description) /\ RegexMatches(Val(query.or), Val(t.description))

\* Task.find(query).sort({ createdAt: -1 })
FindTasks(T, query) == SortNewestFirst({t \in T : Matches(query, t)})

\* TaskList.find({ userId }).map(tl => tl._id)
UserTaskListIdsOfAnyone(L, uid) == {l.id : l \in L}
UserTaskListIds(L, uid) == {l.id : l \in {x \in L : x.userId = uid}}

getTasksListUnverified(L, T, uid, q, offset) ==
    IF IsSome(q.taskListId)
    THEN Out(ArrayResponse(FindTasks(T, BuildQuery({Val(q.taskListId)}, q, offset))),
             L, T)
    ELSE Out(ArrayResponse(FindTasks(T, BuildQuery(UserTaskListIds(L, uid), q, offset))),
             L, T)

getTasks(L, T, uid, q, offset) ==
    IF IsSome(q.taskListId)
    THEN IF FindOwnedList(L, Val(q.taskListId), uid) = {}
         THEN Out(ErrorResponse(404, "Task list not found"), L, T)
         ELSE Out(ArrayResponse(FindTasks(T, BuildQuery({Val(q.taskListId)}, q, offset))),
                  L, T)
    ELSE Out(ArrayResponse(FindTasks(T, BuildQuery(UserTaskListIds(L, uid), q, offset))),
             L, T)

(***************************************************************************)
(* Users.  A stored user is [id, email, password, name]; password holds    *)
(* the salted hash written by the pre-save hook, never the plaintext.      *)
(***************************************************************************)
Hash(password) == <<"bcrypt", password>>

\* user.comparePassword(candidate)
comparePassword(user, candidate) == user.password = Hash(candidate)

\* User.findOne({ email })
FindUserByEmail(U, email) == {u \in U : u.email = email}

\* The unique index on email: whether the store accepts the insert.
UniqueEmailAcceptsAlways(U, email) == TRUE
UniqueEmailAccepts(U, email) == FindUserByEmail(U, email) = {}

PublicUser(u) == [id |-> u.id, email |-> u.email, name |-> u.name]

AuthData(u, t) == <<[token |-> generateToken(u.id, t), user |-> PublicUser(u)]>>

EmailTaken == ErrorResponse(400, "User with this email already exists")
InvalidCredentialsDistinct(userExists) ==
    IF userExists THEN ErrorResponse(401, "Invalid password")
    ELSE ErrorResponse(401, "Invalid email or password")
InvalidCredentials(userExists) == ErrorResponse(401, "Invalid email or password")

CredentialsMissing(body) ==
    \/ body.email = None \/ Val(body.email) = <<>>
    \/ body.password = None \/ Val(body.password) = <<>>

\* signup up to and including the existence precheck: the response when the
\* request ends there, or None when it goes on to user.save().
signupPrecheckSkipped(U, body) ==
    IF CredentialsMissing(body)
    THEN Some(ErrorResponse(400, "Email and password are required"))
    ELSE None
signupPrecheck(U, body) ==
    IF CredentialsMissing(body)
    THEN Some(ErrorResponse(400, "Email and password are required"))
    ELSE IF FindUserByEmail(U, Val(body.email)) # {} THEN Some(EmailTaken)
    ELSE None

\* user.save() and the answer: [resp, users]
signupSave(U, newId, body, t) ==
    LET user == [id |-> newId, email |-> Val(body.email),
                 password |-> Hash(Val(body.password)),
                 name |-> body.name]
    IN IF ~UniqueEmailAccepts(U, user.email)
       THEN [resp |-> InternalError, users |-> U]
       ELSE [resp |-> SuccessResponse(201, "User created successfully", AuthData(user, t)),
             users |-> U \cup {user}]

login(U, body, t) ==
    IF CredentialsMissing(body)
    THEN ErrorResponse(400, "Email and password are required")
    ELSE LET found == FindUserByEmail(U, Val(body.email))
         IN IF found = {} THEN InvalidCredentials(FALSE)
            ELSE LET user == CHOOSE u \in found : TRUE
                 IN IF ~comparePassword(user, Val(body.password))
                    THEN InvalidCredentials(TRUE)
                    ELSE SuccessResponse(200, "Login successful", AuthData(user, t))

(***************************************************************************)
(* Requests.  req is the request served last: [op, header, at, uid,        *)
(* params], uid being the user the handler acted as (None when the         *)
(* request was rejected before any handler); resp is its response.         *)
(* clients is the set of Authorization headers the clients can send: the   *)
(* tokens they were issued, tokens signed with another key, headers that   *)
(* are no bearer token, or none.                                           *)
(***************************************************************************)
NoParams == [id |-> None, body |-> None, fails |-> FALSE]
IdParams(id) == [id |-> Some(id), body |-> None, fails |-> FALSE]
BodyParams(body) == [id |-> None, body |-> Some(body), fails |-> FALSE]
IdBodyParams(id, body) == [id |-> Some(id), body |-> Some(body), fails |-> FALSE]
DeleteParams(id, fails) == [id |-> Some(id), body |-> None, fails |-> fails]

NoRequest == [op |-> "none", header |-> MissingHeader, at |-> 0, uid |-> None,
              params |-> NoParams]

ListOps == {"getAllTaskLists", "getTaskListById", "createTaskList",
            "updateTaskList", "deleteTaskList"}
TaskOps == {"getTasks", "getTaskById", "createTask", "updateTask",
            "toggleTask", "deleteTask"}

\* router.use(authenticate) is registered before every route of both routers.
GuardedExceptTaskRead(op) == op # "getTaskById"
Guarded(op) == op \in ListOps \cup TaskOps

\* req.userId when a handler runs without the middleware having set it
NoUser == 0

Actor(op, header, t) == IF Guarded(op) THEN authenticate(header, t) ELSE Some(NoUser)

\* req.userId as the handler of op reads it for a request with this header.
Requester(op, header) ==
    LET actor == Actor(op, header, now)
    IN IF actor = None THEN NoUser ELSE Val(actor)

\* One request through the middleware and, if it passes, the handler, whose
\* outcome for the requester is out.
Serve(op, header, params, out) ==
    LET actor == Actor(op, header, now)
    IN /\ req' = [op |-> op, header |-> header, at |-> now, uid |-> actor,
                  params |-> params]
       /\ IF actor = None
          THEN /\ resp' = Unauthenticated
               /\ UNCHANGED <<taskLists, tasks>>
          ELSE /\ resp' = out.resp
               /\ taskLists' = out.taskLists
               /\ tasks' = out.tasks
       /\ nextListId' = IF \E l \in taskLists' : l.id = nextListId
                        THEN nextListId + 1 ELSE nextListId
       /\ nextTaskId' = IF \E t \in tasks' : t.id = nextTaskId
                        THEN nextTaskId + 1 ELSE nextTaskId
       /\ UNCHANGED <<users, nextUserId, now, tz, signups, clients, deletes, creates, serverless, toggles>>

(***************************************************************************)
(* Inputs of the resource specification.                                   *)
(***************************************************************************)
ListIds == 1..MaxLists
TaskIds == 1..MaxTasks

Alice == 1
Bob == 2

EmailA == <<"a", "@", "x">>
EmailB == <<"b", "@", "x">>
PasswordA == <<"p", "w", "1">>
PasswordB == <<"p", "w", "2">>
NameA == <<"A", "n", "n">>

RegisteredUsers ==
    {[id |-> Alice, email |-> EmailA, password |-> Hash(PasswordA), name |-> Some(NameA)],
     [id |-> Bob, email |-> EmailB, password |-> Hash(PasswordB), name |-> None]}

\* Headers that the middleware rejects at time t: an expired token, a token
\* signed with another key, a header that is no bearer token, no header.
BadHeaders(t) ==
    {Bearer(generateToken(Alice, t - TokenTTL)), Bearer(ForgedToken(Alice, t)),
     MalformedHeader, MissingHeader}

\* The middleware answers a rejected request before any parameter is read, so
\* one parameter value is enumerated for it.
ParamsFor(h, t, S) ==
    IF authenticate(h, t) = None THEN {CHOOSE x \in S : TRUE} ELSE S

ListBody(name, description, color) ==
    [name |-> name, description |-> description, color |-> color]

NameWork == <<"W", "o", "r", "k">>
NameHome == <<"H", "o", "m", "e">>

CreateListBodies == {ListBody(Some(NameWork), None, None), ListBody(None, None, None)}
ColorRed == <<"r", "e", "d">>

\* A rename, and a body whose color fails the schema's match validator.
UpdateListBodies ==
    {ListBody(Some(NameHome), None, None), ListBody(None, None, Some(ColorRed))}

TaskBody(taskListId, title, description, completed, priority, dueDate, tags) ==
    [taskListId |-> taskListId, title |-> title, description |-> description,
     completed |-> completed, priority |-> priority, dueDate |-> dueDate,
     tags |-> tags]

TitleA == <<"p", "l", "a", "n">>
TitleB == <<"S", "h", "i", "p">>
BadPriority == <<"x">>

CreateTaskBodies ==
    {TaskBody(Some(l), Some(TitleA), None, None, None, None, None) : l \in ListIds}
UpdateTaskBodies ==
    {TaskBody(None, None, None, Some(TRUE), None, None, None)}

Query(taskListId, completed, priority, tags, dueDate, search) ==
    [taskListId |-> taskListId, completed |-> completed, priority |-> priority,
     tags |-> tags, dueDate |-> dueDate, search |-> search]

NoQuery == Query(None, None, None, None, None, None)

Queries ==
    {NoQuery, Query(None, Some(StrTrue), Some(Medium), None, None, None)}
        \cup {Query(Some(l), None, None, None, None, None) : l \in ListIds}

(***************************************************************************)
(* The routes of the two routers, one action each.                         *)
(***************************************************************************)
GetAllTaskLists ==
    \E h \in clients :
        Serve("getAllTaskLists", h, NoParams,
              getAllTaskLists(taskLists, tasks, Requester("getAllTaskLists", h)))

GetTaskListById ==
    \E h \in clients : \E id \in ParamsFor(h, now, ListIds) :
        Serve("getTaskListById", h, IdParams(id),
              getTaskListById(taskLists, tasks, Requester("getTaskListById", h), id))

CreateTaskListOf(B) ==
    /\ nextListId <= MaxLists
    /\ \E h \in clients : \E body \in ParamsFor(h, now, B) :
           Serve("createTaskList", h, BodyParams(body),
                 createTaskList(taskLists, tasks, Requester("createTaskList", h), nextListId, body))

CreateTaskList == CreateTaskListOf(CreateListBodies)

UpdateTaskListOf(B) ==
    \E h \in clients : \E id \in ParamsFor(h, now, ListIds), body \in ParamsFor(h, now, B) :
        Serve("updateTaskList", h, IdBodyParams(id, body),
              updateTaskList(taskLists, tasks, Requester("updateTaskList", h), id, body))

UpdateTaskList == UpdateTaskListOf(UpdateListBodies)

DeleteTaskListOf(I) ==
    \E h \in clients : \E id \in ParamsFor(h, now, I), fails \in ParamsFor(h, now, BOOLEAN) :
        Serve("deleteTaskList", h, DeleteParams(id, fails),
              deleteTaskList(taskLists, tasks, Requester("deleteTaskList", h), id, fails))

DeleteTaskList == DeleteTaskListOf(ListIds)

GetTasksOf(Q) ==
    \E h \in clients : \E q \in ParamsFor(h, now, Q) :
        Serve("getTasks", h, BodyParams(q),
              getTasks(taskLists, tasks, Requester("getTasks", h), q, tz))

GetTasks == GetTasksOf(Queries)

GetTaskById ==
    \E h \in clients : \E id \in ParamsFor(h, now, TaskIds) :
        Serve("getTaskById", h, IdParams(id),
              getTaskById(taskLists, tasks, Requester("getTaskById", h), id))

CreateTaskOf(B) ==
    /\ nextTaskId <= MaxTasks
    /\ \E h \in clients : \E body \in ParamsFor(h, now, B) :
           Serve("createTask", h, BodyParams(body),
                 createTask(taskLists, tasks, Requester("createTask", h), nextTaskId, body))

CreateTask == CreateTaskOf(CreateTaskBodies)

UpdateTaskOf(B) ==
    \E h \in clients : \E id \in ParamsFor(h, now, TaskIds), body \in ParamsFor(h, now, B) :
        Serve("updateTask", h, IdBodyParams(id, body),
              updateTask(taskLists, tasks, Requester("updateTask", h), id, body))

UpdateTask == UpdateTaskOf(UpdateTaskBodies)

ToggleTask ==
    \E h \in clients : \E id \in ParamsFor(h, now, TaskIds) :
        Serve("toggleTask", h, IdParams(id),
              toggleTask(taskLists, tasks, Requester("toggleTask", h), id))

DeleteTaskOf(I) ==
    \E h \in clients : \E id \in ParamsFor(h, now, I) :
        Serve("deleteTask", h, IdParams(id),
              deleteTask(taskLists, tasks, Requester("deleteTask", h), id))

DeleteTask == DeleteTaskOf(TaskIds)

(***************************************************************************)
(* The resource specification: two registered users, an empty store, and   *)
(* any sequence of requests to the task-list and task routes.              *)
(***************************************************************************)
TzOffsets == {0}

Init ==
    /\ users = RegisteredUsers
    /\ taskLists = {}
    /\ tasks = {}
    /\ nextUserId = 3
    /\ nextListId = 1
    /\ nextTaskId = 1
    /\ now = TokenTTL
    /\ tz \in TzOffsets
    /\ signups = <<>>
    /\ deletes = <<>>
    /\ creates = <<>>
    /\ toggles = <<>>
    /\ serverless = ColdStart
    /\ clients = {Bearer(generateToken(u, now)) : u \in {Alice, Bob}}
    /\ req = NoRequest
    /\ resp = NoResponse

Next ==
    \/ GetAllTaskLists
    \/ GetTaskListById
    \/ CreateTaskList
    \/ UpdateTaskList
    \/ DeleteTaskList
    \/ GetTasks
    \/ GetTaskById
    \/ CreateTask
    \/ UpdateTask
    \/ ToggleTask
    \/ DeleteTask

Spec == Init /\ [][Next]_vars

(***************************************************************************)
(* The guard specification: the same routes, requested by one registered   *)
(* user and by clients whose header the middleware rejects.                *)
(***************************************************************************)
InitGuard ==
    /\ users = RegisteredUsers
    /\ taskLists = {}
    /\ tasks = {}
    /\ nextUserId = 3
    /\ nextListId = 1
    /\ nextTaskId = 1
    /\ now = TokenTTL
    /\ tz \in TzOffsets
    /\ signups = <<>>
    /\ deletes = <<>>
    /\ creates = <<>>
    /\ toggles = <<>>
    /\ serverless = ColdStart
    /\ clients = {Bearer(generateToken(Alice, now))} \cup BadHeaders(now)
    /\ req = NoRequest
    /\ resp = NoResponse

SpecGuard == InitGuard /\ [][Next]_vars

(***************************************************************************)
(* The auth routes.  signup awaits User.findOne and then user.save(), so   *)
(* it is two steps and other requests may run between them; signups holds  *)
(* the bodies of the signups that passed the precheck and have not saved   *)
(* yet.  A client keeps the token of its last successful signup or login.  *)
(***************************************************************************)
MaxPending == 2

Credentials(email, password, name) ==
    [email |-> email, password |-> password, name |-> name]

SignupBodies ==
    {Credentials(Some(EmailA), Some(PasswordA), Some(NameA)),
     Credentials(Some(EmailA), Some(PasswordB), None),
     Credentials(Some(EmailB), Some(PasswordB), None),
     Credentials(Some(EmailA), None, Some(NameA))}

LoginBodies ==
    {Credentials(Some(e), Some(p), None) : e \in {EmailA, EmailB}, p \in {PasswordA, PasswordB}}
        \cup {Credentials(Some(EmailA), None, None)}

AuthRequest(op, body) ==
    [op |-> op, header |-> MissingHeader, at |-> now, uid |-> None,
     params |-> BodyParams(body)]

TokenOf(r) == Bearer(r.data[1].token)

RemoveAt(q, i) == SubSeq(q, 1, i - 1) \o SubSeq(q, i + 1, Len(q))

\* signup up to the precheck: answered there, or left waiting for save.
SignupBeginOf(B) ==
    \E body \in B :
        LET early == signupPrecheck(users, body)
        IN /\ Len(signups) < MaxPending
           /\ req' = AuthRequest("signup", body)
           /\ IF IsSome(early)
              THEN resp' = Val(early) /\ signups' = signups
              ELSE resp' = NoResponse /\ signups' = Append(signups, body)
           /\ UNCHANGED <<users, taskLists, tasks, nextUserId, nextListId,
                          nextTaskId, now, tz, clients, deletes, creates, serverless, toggles>>

SignupBegin == SignupBeginOf(SignupBodies)

\* user.save() of a waiting signup, and its answer.
SignupSave ==
    \E i \in 1..Len(signups) :
        LET out == signupSave(users, nextUserId, signups[i], now)
        IN /\ nextUserId <= MaxUsers
           /\ req' = AuthRequest("signup", signups[i])
           /\ resp' = out.resp
           /\ users' = out.users
           /\ nextUserId' = IF out.users # users THEN nextUserId + 1 ELSE nextUserId
           /\ signups' = RemoveAt(signups, i)
           /\ clients' = IF out.resp.success THEN {TokenOf(out.resp)} ELSE clients
           /\ UNCHANGED <<taskLists, tasks, nextListId, nextTaskId, now, tz, deletes, creates, serverless, toggles>>

LoginOf(B) ==
    \E body \in B :
        LET r == login(users, body, now)
        IN /\ req' = AuthRequest("login", body)
           /\ resp' = r
           /\ clients' = IF r.success THEN {TokenOf(r)} ELSE clients
           /\ UNCHANGED <<users, taskLists, tasks, nextUserId, nextListId,
                          nextTaskId, now, tz, signups, deletes, creates, serverless, toggles>>

Login == LoginOf(LoginBodies)

\* One hour passes.
Tick ==
    /\ now < MaxTime
    /\ now' = now + 1
    /\ UNCHANGED <<users, taskLists, tasks, nextUserId, nextListId, nextTaskId,
                   tz, signups, clients, req, resp, deletes, creates, serverless, toggles>>

(***************************************************************************)
(* The signup specification: no user yet, concurrent signups and logins.   *)
(***************************************************************************)
InitSignup ==
    /\ users = {}
    /\ taskLists = {}
    /\ tasks = {}
    /\ nextUserId = 1
    /\ nextListId = 1
    /\ nextTaskId = 1
    /\ now = 0
    /\ tz \in TzOffsets
    /\ signups = <<>>
    /\ deletes = <<>>
    /\ creates = <<>>
    /\ toggles = <<>>
    /\ serverless = ColdStart
    /\ clients = {}
    /\ req = NoRequest
    /\ resp = NoResponse

NextSignup == SignupBegin \/ SignupSave \/ Login

SpecSignup == InitSignup /\ [][NextSignup]_vars

(***************************************************************************)
(* The token specification: two registered users who log in, let time      *)
(* pass and use the token they hold on a protected route.                  *)
(***************************************************************************)
InitToken ==
    /\ users = RegisteredUsers
    /\ taskLists = {}
    /\ tasks = {}
    /\ nextUserId = 3
    /\ nextListId = 1
    /\ nextTaskId = 1
    /\ now = 0
    /\ tz \in TzOffsets
    /\ signups = <<>>
    /\ deletes = <<>>
    /\ creates = <<>>
    /\ toggles = <<>>
    /\ serverless = ColdStart
    /\ clients = {}
    /\ req = NoRequest
    /\ resp = NoResponse

NextToken == Login \/ Tick \/ GetAllTaskLists

SpecToken == InitToken /\ [][NextToken]_vars

(***************************************************************************)
(* The filter specification: a store drawn from a pool of tasks in three   *)
(* lists (two of Alice, one of Bob), a server time zone, and getTasks      *)
(* requests combining the six criteria.                                    *)
(***************************************************************************)
MaxFilterTasks == 2

FilterTzOffsets == {0, 1}

FilterLists ==
    {[id |-> 1, userId |-> Alice, name |-> NameWork, description |-> None, color |-> None],
     [id |-> 2, userId |-> Alice, name |-> NameHome, description |-> None, color |-> None],
     [id |-> 3, userId |-> Bob, name |-> NameWork, description |-> None, color |-> None]}

Task(id, taskListId, title, description, completed, priority, dueDate, tags) ==
    [id |-> id, taskListId |-> taskListId, title |-> title,
     description |-> description, completed |-> completed, priority |-> priority,
     dueDate |-> dueDate, tags |-> tags]

TagA == <<"a">>
TagB == <<"b">>
TagC == <<"c">>

TaskPool ==
    {Task(1, 1, <<"S", "h", "i", "p">>, None, TRUE, High, Some(DayLen), <<TagA>>),
     Task(2, 1, TitleA, Some(<<"s", "h", "o", "p">>), FALSE, High,
          Some(2 * DayLen - 1), <<TagB, TagC>>),
     Task(3, 2, <<"s", "x", "o", "p">>, None, TRUE, Low, Some(2 * DayLen), <<>>),
     Task(4, 3, <<"S", "h", "i", "p">>, None, TRUE, High, Some(DayLen), <<TagA>>),
     Task(5, 2, <<"m", "i", "s", "c">>, None, FALSE, Medium, Some(DayLen - 1),
          <<TagA, TagC>>)}

FilterQueries ==
    {Query(l, c, p, g, d, x) :
        l \in {None, Some(1)},
        c \in {None, Some(StrTrue)},
        p \in {None, Some(High)},
        g \in {None, Some(<<"a", ",", " ", "b">>)},
        d \in {None, Some(DateOnly(1))},
        x \in {None, Some(<<"S", ".", "o">>)}}

InitFilter ==
    /\ users = RegisteredUsers
    /\ taskLists = FilterLists
    /\ tasks \in {T \in SUBSET TaskPool : Cardinality(T) <= MaxFilterTasks}
    /\ nextUserId = 3
    /\ nextListId = 4
    /\ nextTaskId = 6
    /\ now = TokenTTL
    /\ tz \in FilterTzOffsets
    /\ signups = <<>>
    /\ deletes = <<>>
    /\ creates = <<>>
    /\ toggles = <<>>
    /\ serverless = ColdStart
    /\ clients = {Bearer(generateToken(u, now)) : u \in {Alice, Bob}}
    /\ req = NoRequest
    /\ resp = NoResponse

FilterTasks == GetTasksOf(FilterQueries)

NextFilter == FilterTasks

SpecFilter == InitFilter /\ [][NextFilter]_vars

(***************************************************************************)
(* The probe specification: the stores of the filter specification, also   *)
(* without Bob's list (his task is then an orphan and he owns no list), a  *)
(* server east or west of UTC, and getTasks requests that exercise one     *)
(* criterion at a time.                                                    *)
(***************************************************************************)
ProbeTzOffsets == {-1, 0, 1}

TagsAB == <<"a", ",", " ", "b">>
TagsCSpaced == <<" ", "c", " ">>
TagsZ == <<"z">>

SearchRegex == <<"S", ".", "o">>
SearchSH == <<"S", "H">>

StrEmpty == <<>>
StrYes == <<"y", "e", "s">>

ProbeQueries ==
    {NoQuery}
        \cup {Query(None, None, None, Some(g), None, None) :
                 g \in {TagsAB, TagsCSpaced, TagsZ}}
        \cup {Query(None, c, None, None, Some(d), None) :
                 c \in {None, Some(StrTrue)}, d \in {DateOnly(1), InvalidDate}}
        \cup {Query(None, None, None, Some(TagsAB), Some(InvalidDate), None)}
        \cup {Query(None, None, p, None, None, Some(x)) :
                 p \in {None, Some(High)}, x \in {SearchRegex, SearchSH}}
        \cup {Query(None, Some(c), None, None, None, None) :
                 c \in {StrTrue, StrFalse, StrEmpty, StrYes}}
        \cup {Query(None, Some(StrYes), Some(High), None, None, None)}
        \cup {Query(Some(l), c, None, None, None, None) :
                 l \in {1, 2, 3, 4}, c \in {None, Some(StrTrue)}}

InitProbe ==
    /\ users = RegisteredUsers
    /\ taskLists \in {FilterLists, {l \in FilterLists : l.userId # Bob}}
    /\ tasks \in {T \in SUBSET TaskPool : Cardinality(T) <= MaxFilterTasks}
    /\ nextUserId = 3
    /\ nextListId = 5
    /\ nextTaskId = 6
    /\ now = TokenTTL
    /\ tz \in ProbeTzOffsets
    /\ signups = <<>>
    /\ deletes = <<>>
    /\ creates = <<>>
    /\ toggles = <<>>
    /\ serverless = ColdStart
    /\ clients = {Bearer(generateToken(u, now)) : u \in {Alice, Bob}}
    /\ req = NoRequest
    /\ resp = NoResponse

ProbeTasks == GetTasksOf(ProbeQueries)

NextProbe == ProbeTasks

SpecProbe == InitProbe /\ [][NextProbe]_vars

(***************************************************************************)
(* The round-trip specification: the lists of the filter specification, no *)
(* task yet; tasks are created from bodies that vary the title's padding,  *)
(* the priority, the tags and a completed flag, and are read back by id    *)
(* and toggled.                                                            *)
(***************************************************************************)
TitlePadded == <<" ", "D", "o", " ", "i", "t", " ", " ">>

RoundBodies ==
    {TaskBody(Some(l), Some(title), None, r.completed, priority, None, r.tags) :
        l \in {1, 2, 3},
        title \in {TitleA, TitlePadded},
        priority \in {None, Some(High)},
        r \in {[completed |-> None, tags |-> None],
               [completed |-> Some(TRUE), tags |-> Some(<<TagB, TagA>>)]}}

InitRound ==
    /\ users = RegisteredUsers
    /\ taskLists = FilterLists
    /\ tasks = {}
    /\ nextUserId = 3
    /\ nextListId = 4
    /\ nextTaskId = 1
    /\ now = TokenTTL
    /\ tz \in TzOffsets
    /\ signups = <<>>
    /\ deletes = <<>>
    /\ creates = <<>>
    /\ toggles = <<>>
    /\ serverless = ColdStart
    /\ clients = {Bearer(generateToken(u, now)) : u \in {Alice, Bob}}
    /\ req = NoRequest
    /\ resp = NoResponse

CreateRoundTask == CreateTaskOf(RoundBodies)

NextRound == CreateRoundTask \/ GetTaskById \/ ToggleTask

SpecRound == InitRound /\ [][NextRound]_vars

(***************************************************************************)
(* Concurrent deleteTaskList requests.  A request runs in two steps, one   *)
(* per await of the handler; requests of other clients run between them.   *)
(* deletes records every request: its header, requester, list id and its   *)
(* status, 0 while it waits for Task.deleteMany.                            *)
(***************************************************************************)
Waiting == 0

DeleteRequest(e, fails) ==
    [op |-> "deleteTaskList", header |-> e.header, at |-> now,
     uid |-> Some(e.uid), params |-> DeleteParams(e.id, fails)]

DeleteBegin ==
    \E h \in clients : \E id \in {l.id : l \in FilterLists} :
        LET uid == Requester("deleteTaskList", h)
            out == deleteTaskListBegin(taskLists, tasks, uid, id)
            e == [header |-> h, uid |-> uid, id |-> id, status |-> out.resp.status]
        IN /\ Len(deletes) < MaxPending
           /\ Actor("deleteTaskList", h, now) # None
           /\ req' = DeleteRequest(e, FALSE)
           /\ resp' = out.resp
           /\ taskLists' = out.taskLists
           /\ deletes' = Append(deletes, e)
           /\ UNCHANGED <<users, tasks, nextUserId, nextListId, nextTaskId,
                          now, tz, signups, clients, creates, serverless, toggles>>

DeleteFinish ==
    \E i \in DOMAIN deletes : \E fails \in BOOLEAN :
        LET e == deletes[i]
            out == deleteTaskListFinish(taskLists, tasks, e.id, fails)
        IN /\ e.status = Waiting
           /\ req' = DeleteRequest(e, fails)
           /\ resp' = out.resp
           /\ tasks' = out.tasks
           /\ deletes' = [deletes EXCEPT ![i].status = out.resp.status]
           /\ UNCHANGED <<users, taskLists, nextUserId, nextListId, nextTaskId,
                          now, tz, signups, clients, creates, serverless, toggles>>

InitDelete ==
    /\ users = RegisteredUsers
    /\ taskLists = FilterLists
    /\ tasks = TaskPool
    /\ nextUserId = 3
    /\ nextListId = 4
    /\ nextTaskId = 6
    /\ now = TokenTTL
    /\ tz \in TzOffsets
    /\ signups = <<>>
    /\ deletes = <<>>
    /\ creates = <<>>
    /\ toggles = <<>>
    /\ serverless = ColdStart
    /\ clients = {Bearer(generateToken(u, now)) : u \in {Alice, Bob}}
    /\ req = NoRequest
    /\ resp = NoResponse

NextDelete == DeleteBegin \/ DeleteFinish

SpecDelete == InitDelete /\ [][NextDelete]_vars

(***************************************************************************)
(* Required fields: requests whose required fields are absent or empty,    *)
(* next to complete ones, from signup to the creation of lists and tasks.  *)
(***************************************************************************)
Absent(o) == o = None \/ Val(o) = <<>>

RequiredCredentials ==
    {Credentials(e, p, None) :
        e \in {None, Some(<<>>), Some(EmailA), Some(EmailB)},
        p \in {None, Some(<<>>), Some(PasswordA)}}

RequiredListBodies ==
    {ListBody(n, None, c) :
        n \in {None, Some(<<>>), Some(NameWork)}, c \in {None, Some(ColorRed)}}

\* List ids that may be stored, and one that never is.
RequiredTaskBodies ==
    {TaskBody(l, t, None, None, None, None, None) :
        l \in {None} \cup {Some(i) : i \in 1..(MaxLists + 1)},
        t \in {None, Some(<<>>), Some(TitleA)}}

SignupRequired == SignupBeginOf(RequiredCredentials)
LoginRequired == LoginOf(RequiredCredentials)
CreateListRequired == CreateTaskListOf(RequiredListBodies)
CreateTaskRequired == CreateTaskOf(RequiredTaskBodies)

InitRequired ==
    /\ users = {}
    /\ taskLists = {}
    /\ tasks = {}
    /\ nextUserId = 1
    /\ nextListId = 1
    /\ nextTaskId = 1
    /\ now = 0
    /\ tz \in TzOffsets
    /\ signups = <<>>
    /\ deletes = <<>>
    /\ creates = <<>>
    /\ toggles = <<>>
    /\ serverless = ColdStart
    /\ clients = {}
    /\ req = NoRequest
    /\ resp = NoResponse

NextRequired ==
    \/ SignupRequired
    \/ SignupSave
    \/ LoginRequired
    \/ CreateListRequired
    \/ CreateTaskRequired

SpecRequired == InitRequired /\ [][NextRequired]_vars

(***************************************************************************)
(* Ownership references: update bodies that carry a userId or a            *)
(* taskListId next to the fields the handlers read.                        *)
(***************************************************************************)
OwnerListBodies ==
    {[name |-> Some(NameHome), description |-> None, color |-> None,
      userId |-> Some(u)] : u \in {Alice, Bob}}

OwnerTaskBodies ==
    {TaskBody(Some(l), Some(TitleB), None, None, None, None, None) :
        l \in 1..(MaxLists + 1)}

UpdateListOwner == UpdateTaskListOf(OwnerListBodies)
UpdateTaskOwner == UpdateTaskOf(OwnerTaskBodies)

InitOwner ==
    /\ users = RegisteredUsers
    /\ taskLists = {}
    /\ tasks = {}
    /\ nextUserId = 3
    /\ nextListId = 1
    /\ nextTaskId = 1
    /\ now = TokenTTL
    /\ tz \in TzOffsets
    /\ signups = <<>>
    /\ deletes = <<>>
    /\ creates = <<>>
    /\ toggles = <<>>
    /\ serverless = ColdStart
    /\ clients = {Bearer(generateToken(u, now)) : u \in {Alice, Bob}}
    /\ req = NoRequest
    /\ resp = NoResponse

NextOwner ==
    \/ CreateTaskList
    \/ CreateTask
    \/ UpdateListOwner
    \/ UpdateTaskOwner
    \/ ToggleTask
    \/ DeleteTask
    \/ DeleteTaskList

SpecOwner == InitOwner /\ [][NextOwner]_vars

(***************************************************************************)
(* Schema bounds: create and update bodies at and beyond the limits of     *)
(* taskSchema and taskListSchema.                                          *)
(***************************************************************************)
Filled(n) == [i \in 1..n |-> "x"]
Blank == <<" ", " ">>
ElevenTags == [i \in 1..(MaxTags + 1) |-> TagA]

SchemaListBodies ==
    {ListBody(Some(n), None, None) :
        n \in {NameHome, Blank, Filled(NameMaxLen + 1)}}

SchemaCreateTaskBodies ==
    {TaskBody(Some(l), Some(t), None, None, None, None, None) :
        l \in ListIds, t \in {TitleA, Blank, Filled(TitleMaxLen + 1)}}
    \cup {TaskBody(Some(l), Some(TitleA), None, None, Some(BadPriority), None, None) :
            l \in ListIds}
    \cup {TaskBody(Some(l), Some(TitleA), None, None, None, None, Some(ElevenTags)) :
            l \in ListIds}

SchemaUpdateTaskBodies ==
    {TaskBody(None, Some(t), None, None, None, None, None) :
        t \in {Blank, Filled(TitleMaxLen + 1)}}
    \cup {TaskBody(None, None, None, None, Some(p), None, None) :
            p \in {High, BadPriority, <<>>, JsonNull}}
    \cup {TaskBody(None, None, None, None, None, None, Some(g)) :
            g \in {ElevenTags}}

CreateListSchema == CreateTaskListOf(SchemaListBodies)
UpdateListSchema == UpdateTaskListOf(SchemaListBodies)
CreateTaskSchema == CreateTaskOf(SchemaCreateTaskBodies)
UpdateTaskSchema == UpdateTaskOf(SchemaUpdateTaskBodies)

NextSchema ==
    \/ CreateListSchema
    \/ UpdateListSchema
    \/ CreateTaskSchema
    \/ UpdateTaskSchema

SpecSchema == InitOwner /\ [][NextSchema]_vars

(***************************************************************************)
(* Concurrent createTask and deleteTaskList requests.  createTask runs in  *)
(* two steps, the lookup of the list and task.save(); creates holds the    *)
(* requests that passed the lookup and have not saved yet.                 *)
(***************************************************************************)
CreateRequest(e) ==
    [op |-> "createTask", header |-> e.header, at |-> now,
     uid |-> Some(e.uid), params |-> BodyParams(e.body)]

CreateBegin ==
    \E h \in clients : \E body \in CreateTaskBodies :
        LET uid == Requester("createTask", h)
            early == createTaskBegin(taskLists, uid, body)
            e == [header |-> h, uid |-> uid, body |-> body]
        IN /\ nextTaskId + Len(creates) <= MaxTasks
           /\ Len(creates) < MaxPending
           /\ Actor("createTask", h, now) # None
           /\ req' = CreateRequest(e)
           /\ IF IsSome(early)
              THEN resp' = Val(early) /\ creates' = creates
              ELSE resp' = NoResponse /\ creates' = Append(creates, e)
           /\ UNCHANGED <<users, taskLists, tasks, nextUserId, nextListId,
                          nextTaskId, now, tz, signups, deletes, clients, serverless, toggles>>

CreateSave ==
    \E i \in DOMAIN creates :
        LET e == creates[i]
            out == createTaskSave(taskLists, tasks, nextTaskId, e.body)
        IN /\ req' = CreateRequest(e)
           /\ resp' = out.resp
           /\ tasks' = out.tasks
           /\ nextTaskId' = IF out.tasks # tasks THEN nextTaskId + 1 ELSE nextTaskId
           /\ creates' = RemoveAt(creates, i)
           /\ UNCHANGED <<users, taskLists, nextUserId, nextListId, now, tz,
                          signups, deletes, clients, serverless, toggles>>

InitOrphan ==
    /\ users = RegisteredUsers
    /\ taskLists = {l \in FilterLists : l.id \in ListIds}
    /\ tasks = {}
    /\ nextUserId = 3
    /\ nextListId = MaxLists + 1
    /\ nextTaskId = 1
    /\ now = TokenTTL
    /\ tz \in TzOffsets
    /\ signups = <<>>
    /\ deletes = <<>>
    /\ creates = <<>>
    /\ toggles = <<>>
    /\ serverless = ColdStart
    /\ clients = {Bearer(generateToken(u, now)) : u \in {Alice, Bob}}
    /\ req = NoRequest
    /\ resp = NoResponse

NextOrphan == CreateBegin \/ CreateSave \/ DeleteBegin \/ DeleteFinish

SpecOrphan == InitOrphan /\ [][NextOrphan]_vars

(***************************************************************************)
(* Requests through the database middleware of the serverless entry        *)
(* point, to the routes that are answered in api/index.ts itself.          *)
(***************************************************************************)
MaxConnects == 3

Routes == {"health", "root", "api-docs/json", "swagger.json"}

RouteResponse(route) ==
    SuccessResponse(200,
                    CASE route = "health" -> "Server is running"
                      [] route = "root" -> "Todo App API"
                      [] route = "api-docs/json" -> "Todo App API Documentation"
                      [] OTHER -> "",
                    None)

EntryRequest(route) ==
    [op |-> route, header |-> MissingHeader, at |-> now, uid |-> None,
     params |-> NoParams]

\* A request enters the middleware: initDatabase reads the flag, and either
\* returns at once (next() runs the route) or calls connectDatabase and waits.
Arrive ==
    \E route \in Routes :
        /\ ~serverless.exited
        /\ req' = EntryRequest(route)
        /\ IF serverless.dbInitialized
           THEN /\ resp' = RouteResponse(route)
                /\ serverless' = serverless
           ELSE /\ serverless.connectCalls < MaxConnects
                /\ Len(serverless.pending) < MaxPending
                /\ resp' = NoResponse
                /\ serverless' = [serverless EXCEPT
                                    !.connectCalls = @ + 1,
                                    !.pending = Append(@, route)]
        /\ UNCHANGED <<users, taskLists, tasks, nextUserId, nextListId,
                       nextTaskId, now, tz, signups, deletes, creates, clients, toggles>>

\* connectDatabase of a waiting request resolves: the flag is set and next()
\* runs the route.
ConnectResolves ==
    \E i \in DOMAIN serverless.pending :
        /\ ~serverless.exited
        /\ req' = EntryRequest(serverless.pending[i])
        /\ resp' = RouteResponse(serverless.pending[i])
        /\ serverless' = [serverless EXCEPT
                            !.dbInitialized = TRUE,
                            !.pending = RemoveAt(@, i)]
        /\ UNCHANGED <<users, taskLists, tasks, nextUserId, nextListId,
                       nextTaskId, now, tz, signups, deletes, creates, clients, toggles>>

\* The connection of a waiting request fails.  connectDatabase catches the
\* error, reads error.message and calls process.exit(1): the process ends
\* with every waiting request unanswered.  Only when the thrown value has no
\* message does error.message.includes throw inside the catch block, so that
\* connectDatabase rejects and the middleware answers 500.
ConnectFails ==
    \E i \in DOMAIN serverless.pending : \E hasMessage \in BOOLEAN :
        /\ ~serverless.exited
        /\ req' = EntryRequest(serverless.pending[i])
        /\ IF hasMessage
           THEN /\ resp' = NoResponse
                /\ serverless' = [serverless EXCEPT
                                    !.failures = @ + 1,
                                    !.pending = <<>>,
                                    !.exited = TRUE]
           ELSE /\ resp' = DatabaseFailed
                /\ serverless' = [serverless EXCEPT
                                    !.failures = @ + 1,
                                    !.pending = RemoveAt(@, i)]
        /\ UNCHANGED <<users, taskLists, tasks, nextUserId, nextListId,
                       nextTaskId, now, tz, signups, deletes, creates, clients, toggles>>

\* The platform starts a new process after the old one has exited: the
\* module is loaded again, with dbInitialized = false.
Relaunch ==
    /\ serverless.exited
    /\ serverless' = ColdStart
    /\ UNCHANGED <<users, taskLists, tasks, nextUserId, nextListId, nextTaskId,
                   now, tz, signups, deletes, creates, clients, req, resp, toggles>>

InitEntry ==
    /\ users = RegisteredUsers
    /\ taskLists = {}
    /\ tasks = {}
    /\ nextUserId = 3
    /\ nextListId = 1
    /\ nextTaskId = 1
    /\ now = TokenTTL
    /\ tz \in TzOffsets
    /\ signups = <<>>
    /\ deletes = <<>>
    /\ creates = <<>>
    /\ toggles = <<>>
    /\ serverless = ColdStart
    /\ clients = {}
    /\ req = NoRequest
    /\ resp = NoResponse

NextEntry == Arrive \/ ConnectResolves \/ ConnectFails \/ Relaunch

SpecEntry == InitEntry /\ [][NextEntry]_vars

(***************************************************************************)
(* Concurrent toggleTask requests.  A request reads the task and its list, *)
(* then flips the document it read and saves it; toggles records every     *)
(* request with the document it read and its status, Waiting until saved.  *)
(***************************************************************************)
ToggleRequest(e) ==
    [op |-> "toggleTask", header |-> e.header, at |-> now,
     uid |-> Some(e.uid), params |-> IdParams(e.id)]

ToggleBegin ==
    \E h \in clients : \E id \in {t.id : t \in TaskPool} :
        LET uid == Requester("toggleTask", h)
            early == toggleTaskBegin(taskLists, tasks, uid, id)
            read == FindTask(tasks, id)
            e == [header |-> h, uid |-> uid, id |-> id,
                  read |-> IF read = {} THEN None ELSE Some(CHOOSE t \in read : TRUE),
                  status |-> IF IsSome(early) THEN Val(early).status ELSE Waiting]
        IN /\ Len(toggles) < MaxPending
           /\ Actor("toggleTask", h, now) # None
           /\ req' = ToggleRequest(e)
           /\ resp' = IF IsSome(early) THEN Val(early) ELSE NoResponse
           /\ toggles' = Append(toggles, e)
           /\ UNCHANGED <<users, taskLists, tasks, nextUserId, nextListId,
                          nextTaskId, now, tz, signups, deletes, creates,
                          serverless, clients>>

ToggleSave ==
    \E i \in DOMAIN toggles :
        LET e == toggles[i]
            out == toggleTaskSave(taskLists, tasks, e.id, Val(e.read))
        IN /\ e.status = Waiting
           /\ req' = ToggleRequest(e)
           /\ resp' = out.resp
           /\ tasks' = out.tasks
           /\ toggles' = [toggles EXCEPT ![i].status = out.resp.status]
           /\ UNCHANGED <<users, taskLists, nextUserId, nextListId, nextTaskId,
                          now, tz, signups, deletes, creates, serverless, clients>>

InitToggle ==
    /\ users = RegisteredUsers
    /\ taskLists = FilterLists
    /\ tasks = TaskPool
    /\ nextUserId = 3
    /\ nextListId = 4
    /\ nextTaskId = 6
    /\ now = TokenTTL
    /\ tz \in TzOffsets
    /\ signups = <<>>
    /\ deletes = <<>>
    /\ creates = <<>>
    /\ toggles = <<>>
    /\ serverless = ColdStart
    /\ clients = {Bearer(generateToken(u, now)) : u \in {Alice, Bob}}
    /\ req = NoRequest
    /\ resp = NoResponse

NextToggle == ToggleBegin \/ ToggleSave

SpecToggle == InitToggle /\ [][NextToggle]_vars

(***************************************************************************)
(* Partial updates: bodies that carry some of the fields and omit the      *)
(* others, sent for stored lists and tasks whose fields are set.           *)
(***************************************************************************)
ColorBlack == <<"#", "0", "0", "0", "0", "0", "0">>
DescriptionA == <<"t", "o", "d", "o">>

PartialListBodies ==
    {ListBody(None, None, None),
     ListBody(Some(NameHome), None, None),
     ListBody(None, Some(DescriptionA), Some(ColorBlack))}

PartialTaskBodies ==
    {TaskBody(None, None, None, None, None, None, None),
     TaskBody(None, Some(TitleA), None, None, None, None, None),
     TaskBody(None, None, None, Some(FALSE), None, None, None),
     TaskBody(None, None, None, None, Some(Low), None, Some(<<TagB>>)),
     TaskBody(None, None, Some(DescriptionA), None, None, Some(DateOnly(2)), None)}

UpdateListPartial == UpdateTaskListOf(PartialListBodies)
UpdateTaskPartial == UpdateTaskOf(PartialTaskBodies)

NextPartial == UpdateListPartial \/ UpdateTaskPartial

SpecPartial == InitToggle /\ [][NextPartial]_vars

(***************************************************************************)
(* Deletions from a store of several lists and tasks of two users.         *)
(***************************************************************************)
DeleteStoredTask == DeleteTaskOf({t.id : t \in TaskPool})
DeleteStoredList == DeleteTaskListOf({l.id : l \in FilterLists})

NextRemove == DeleteStoredTask \/ DeleteStoredList

SpecRemove == InitToggle /\ [][NextRemove]_vars

(***************************************************************************)
(* Properties.                                                             *)
(***************************************************************************)
UserIds == {u.id : u \in RegisteredUsers}

ParentLists(L, t) == {l \in L : l.id = t.taskListId}

\* The task id names a stored task whose parent list is owned by someone else.
ForeignTask(L, T, uid, id) ==
    \E t \in T : t.id = id /\ \E l \in ParentLists(L, t) : l.userId # uid

\* The list id names a stored list owned by someone else.
ForeignList(L, uid, id) == \E l \in L : l.id = id /\ l.userId # uid

TaskByIdOps == {"getTaskById", "updateTask", "toggleTask", "deleteTask"}
ListByIdOps == {"getTaskListById", "updateTaskList", "deleteTaskList"}

Served(r, ops) == r.op \in ops /\ IsSome(r.uid) /\ IsSome(r.params.id)

\* C1: getTaskById, updateTask, toggleTask and deleteTask requested by a user
\* on a task whose parent list another user owns answer 404 "Task not found"
\* without data, and leave every task and task list as it was.
C1_CrossUserTaskOps ==
    [][(Served(req', TaskByIdOps)
          /\ ForeignTask(taskLists, tasks, Val(req'.uid), Val(req'.params.id)))
       => /\ resp'.status = 404
          /\ resp' = TaskNotFound
          /\ resp'.data = None
          /\ tasks' = tasks
          /\ taskLists' = taskLists]_vars

C1_Witness ==
    /\ req.op \in {"updateTask", "toggleTask", "deleteTask"}
    /\ req.uid = Some(Alice)
    /\ ForeignTask(taskLists, tasks, Alice, Val(req.params.id))
    /\ \E t \in tasks : t.id = Val(req.params.id) /\ ~t.completed
    /\ resp = TaskNotFound

\* Whether the validators of updateTaskList reject the request's body.
RejectedByValidators(r) ==
    /\ r.op = "updateTaskList"
    /\ ~ListPathsValid(TrimOpt(Val(r.params.body).name),
                       TrimOpt(Val(r.params.body).description),
                       TrimOpt(Val(r.params.body).color))

\* getAllTaskLists returns exactly the stored lists whose userId is the requester.
ListsOfRequesterOnly ==
    (req'.op = "getAllTaskLists" /\ IsSome(req'.uid))
       => /\ resp'.status = 200
          /\ taskLists' = taskLists
          /\ Range(resp'.data) = {l \in taskLists : l.userId = Val(req'.uid)}
          /\ resp'.count = Some(Cardinality({l \in taskLists : l.userId = Val(req'.uid)}))

\* C2 as stated: getTaskListById, updateTaskList and deleteTaskList requested
\* by a user on a list whose userId is another user's answer 404 and leave
\* every list and task as it was; getAllTaskLists returns exactly the stored
\* lists whose userId is the requester.
C2_AsStated ==
    [][/\ (Served(req', ListByIdOps)
             /\ ForeignList(taskLists, Val(req'.uid), Val(req'.params.id)))
          => /\ resp' = ErrorResponse(404, "Task list not found")
             /\ taskLists' = taskLists
             /\ tasks' = tasks
       /\ ListsOfRequesterOnly]_vars

\* C2 amended: the same, except that updateTaskList with a body the schema
\* validators reject answers the validation error (the validators run before
\* the lookup); in that case too no list is returned, changed or removed.
C2_CrossUserListOps ==
    [][/\ (Served(req', ListByIdOps)
             /\ ForeignList(taskLists, Val(req'.uid), Val(req'.params.id)))
          => /\ resp' = IF RejectedByValidators(req') THEN ValidationError
                        ELSE ErrorResponse(404, "Task list not found")
             /\ resp'.data = None
             /\ taskLists' = taskLists
             /\ tasks' = tasks
       /\ ListsOfRequesterOnly]_vars

C2_Witness ==
    /\ req.op \in {"updateTaskList", "deleteTaskList"}
    /\ req.uid = Some(Alice)
    /\ ForeignList(taskLists, Alice, Val(req.params.id))
    /\ resp = ErrorResponse(404, "Task list not found")

\* Bodies tried on both stores: the updates of the specification and one the
\* task schema rejects.
ProbeTaskBodies ==
    UpdateTaskBodies \cup {TaskBody(None, None, None, None, Some(BadPriority), None, None)}

AllAnswerNotFound(L, T, id) ==
    \A u \in UserIds : getTaskById(L, T, u, id).resp = TaskNotFound

\* C4: when deleteTaskList(L) succeeds, every task that referenced L is gone
\* from the store and getTaskById on it answers 404 to every user; and a task
\* id that answers 404 to every user does so in every later state.
C4_CascadeDelete ==
    [][/\ (req'.op = "deleteTaskList" /\ resp'.status = 200)
          => \A t \in tasks :
                t.taskListId = Val(req'.params.id)
                   => /\ FindTask(tasks', t.id) = {}
                      /\ AllAnswerNotFound(taskLists', tasks', t.id)
       /\ \A id \in TaskIds :
             (id < nextTaskId /\ AllAnswerNotFound(taskLists, tasks, id))
                => AllAnswerNotFound(taskLists', tasks', id)]_vars

C4_Witness ==
    /\ req.op = "getTaskById"
    /\ IsSome(req.uid)
    /\ Val(req.params.id) < nextTaskId
    /\ resp = TaskNotFound
    /\ tasks = {}
    /\ taskLists = {}
    /\ nextListId > 1

\* Whether the middleware must reject the header at time t: no header, no
\* bearer token, a signature that is not the server's, or an expired token.
Rejectable(h, t) ==
    \/ h.kind # "bearer"
    \/ Val(h.token).sig # "server"
    \/ t >= Val(h.token).exp

\* C8: a task-list or task request whose token is missing, malformed, wrongly
\* signed or expired is answered with the one Unauthenticated response (401),
\* no handler acts for it, and no stored list or task changes.
C8_RejectedBeforeHandlers ==
    [][(req'.op \in ListOps \cup TaskOps /\ Rejectable(req'.header, req'.at))
       => /\ resp' = Unauthenticated
          /\ resp'.status = 401
          /\ resp'.data = None
          /\ req'.uid = None
          /\ taskLists' = taskLists
          /\ tasks' = tasks]_vars

C8_Witness ==
    /\ req.op = "deleteTaskList"
    /\ req.header = Bearer(generateToken(Alice, now - TokenTTL))
    /\ resp = Unauthenticated
    /\ taskLists # {}
    /\ tasks # {}

\* C5: no two stored users share an email, also when two signups with the same
\* email both pass the precheck before either saves; every successful signup
\* is the only stored user with its email.
C5_EmailUnique ==
    /\ \A u1 \in users, u2 \in users : u1.email = u2.email => u1 = u2
    /\ (req.op = "signup" /\ resp.success)
          => Cardinality(FindUserByEmail(users, Val(Val(req.params.body).email))) = 1

\* Two signups with one email were both waiting to save; one saved, and the
\* other was refused by the store.
C5_Witness ==
    /\ req.op = "signup"
    /\ resp = InternalError
    /\ FindUserByEmail(users, Val(Val(req.params.body).email)) # {}
    /\ \A u \in users : u.email = EmailA /\ u.password # Hash(Val(Val(req.params.body).password))

\* C6: login answers a wrong password for an existing email exactly as it
\* answers the same request when no user has that email: 401 with the same
\* message.
C6_LoginUniformError ==
    \A body \in LoginBodies, u \in users :
        (~CredentialsMissing(body)
            /\ u.email = Val(body.email)
            /\ ~comparePassword(u, Val(body.password)))
        => /\ login(users, body, now) = login(users \ {u}, body, now)
           /\ login(users, body, now).status = 401
           /\ login(users, body, now).data = None

C6_Witness ==
    /\ req.op = "login"
    /\ resp.status = 401
    /\ \E u \in users :
          /\ u.email = Val(Val(req.params.body).email)
          /\ ~comparePassword(u, Val(Val(req.params.body).password))

\* A signup request arrives in this step (it is answered at the precheck or
\* starts waiting for its save).
SignupArrives == req'.op = "signup" /\ Len(signups') >= Len(signups)

\* C7: a signup that arrives with an email that is already registered is
\* answered 400 "User with this email already exists" whatever password and
\* name it carries, without a token, and leaves the users as they were.
C7_DuplicateSignup ==
    [][(SignupArrives
          /\ ~CredentialsMissing(Val(req'.params.body))
          /\ FindUserByEmail(users, Val(Val(req'.params.body).email)) # {})
       => /\ resp' = EmailTaken
          /\ resp'.data = None
          /\ users' = users
          /\ signups' = signups
          /\ clients' = clients]_vars

C7_Witness ==
    /\ req.op = "signup"
    /\ resp = EmailTaken
    /\ \E u \in users :
          /\ u.email = Val(Val(req.params.body).email)
          /\ u.password # Hash(Val(Val(req.params.body).password))
          /\ u.name # Val(req.params.body).name

\* C9: a token issued by signup or login carries the id of the user who signed
\* up or logged in and expires TokenTTL hours after it was issued; the token a
\* client holds authenticates its requests as that user at every time before
\* its expiry and is rejected as Unauthenticated at every time after it,
\* whatever else happened in between.
C9_TokenLifetime ==
    /\ (req.op = "login" /\ resp.success)
          => /\ resp.data[1].token = [userId |-> resp.data[1].user.id, iat |-> req.at,
                                      exp |-> req.at + 24, sig |-> "server"]
             /\ \E u \in users : /\ u.id = resp.data[1].user.id
                                 /\ u.email = Val(Val(req.params.body).email)
    /\ \A body \in {b \in SignupBodies : ~CredentialsMissing(b)} :
          LET out == signupSave(users \ FindUserByEmail(users, Val(body.email)),
                                nextUserId, body, now)
          IN /\ out.resp.success
             /\ out.resp.data[1].token = [userId |-> nextUserId, iat |-> now,
                                             exp |-> now + 24, sig |-> "server"]
    /\ \A h \in clients :
          /\ now < Val(h.token).iat + 24
                => authenticate(h, now) = Some(Val(h.token).userId)
          /\ now > Val(h.token).iat + 24 => authenticate(h, now) = None
    /\ (req.op = "getAllTaskLists" /\ req.header.kind = "bearer")
          => /\ req.at < Val(req.header.token).iat + 24
                   => req.uid = Some(Val(req.header.token).userId) /\ resp.status = 200
             /\ req.at > Val(req.header.token).iat + 24
                   => req.uid = None /\ resp = Unauthenticated

\* A token that was accepted in the last hour before its expiry, and one that
\* was refused after it.
C9_Witness ==
    /\ req.op = "getAllTaskLists"
    /\ req.header.kind = "bearer"
    /\ \/ /\ req.at = Val(req.header.token).iat + 23
          /\ req.uid = Some(Bob)
          /\ resp.status = 200
       \/ /\ req.at = Val(req.header.token).iat + 25
          /\ resp = Unauthenticated
    /\ now = MaxTime

Criteria == {"taskListId", "completed", "priority", "tags", "dueDate", "search"}

\* The query that supplies criterion c of q and nothing else.
Only(q, c) == [k \in Criteria |-> IF k = c THEN q[k] ELSE None]

\* The tasks a getTasks request of uid with query q returns.
Returned(uid, q) == Range(getTasks(taskLists, tasks, uid, q, tz).resp.data)

\* The tasks in the lists of uid.
InListsOf(uid) ==
    {t \in tasks : \E l \in taskLists : l.id = t.taskListId /\ l.userId = uid}

\* C10: a successful getTasks returns exactly the tasks in the requester's lists
\* that are returned for every supplied criterion taken alone; with completed
\* "true" or "false" and a priority as the only criteria it returns exactly the
\* requester's tasks with that completed flag and that priority.
C10_ConjunctiveFilter ==
    (req.op = "getTasks" /\ IsSome(req.uid) /\ resp.status = 200)
    => LET q == Val(req.params.body)
           uid == Val(req.uid)
       IN /\ Range(resp.data)
                = {t \in InListsOf(uid) :
                      \A c \in Criteria : IsSome(q[c]) => t \in Returned(uid, Only(q, c))}
          /\ resp.count = Some(Cardinality(Range(resp.data)))
          /\ Len(resp.data) = Cardinality(Range(resp.data))
          /\ (/\ IsSome(q.completed) /\ Val(q.completed) \in {StrTrue, StrFalse}
              /\ IsSome(q.priority) /\ Val(q.priority) \in Priorities
              /\ q.taskListId = None /\ q.tags = None
              /\ q.dueDate = None /\ q.search = None)
             => Range(resp.data)
                   = {t \in InListsOf(uid) :
                         /\ t.completed = (Val(q.completed) = StrTrue)
                         /\ t.priority = Val(q.priority)}

\* completed=true&priority=high on a store where one of the requester's tasks
\* satisfies both and another only one of them.
C10_Witness ==
    /\ req.op = "getTasks"
    /\ req.uid = Some(Alice)
    /\ Val(req.params.body) = Query(None, Some(StrTrue), Some(High), None, None, None)
    /\ Cardinality(Range(resp.data)) = 1
    /\ \E t \in InListsOf(Alice) : t.priority = High /\ ~t.completed

\* The getTasks request just answered, when it passed the middleware.
Asked == req.op = "getTasks" /\ IsSome(req.uid)
AskedQuery == Val(req.params.body)
Asker == Val(req.uid)

\* Whether the request supplied exactly the criteria in S.
Supplies(q, S) == \A c \in Criteria : IsSome(q[c]) <=> c \in S

TagZ == <<"z">>

\* The tags a tags parameter names.
GivenTags(g) ==
    CASE g = TagsAB -> {TagA, TagB}
      [] g = TagsCSpaced -> {TagC}
      [] g = TagsZ -> {TagZ}

\* C11: with a comma-separated tags parameter, getTasks returns only tasks that
\* carry at least one of the named tags (each entry trimmed), and with tags as
\* the only criterion exactly the requester's tasks that carry at least one.
C11_TagsFilter ==
    (Asked /\ IsSome(AskedQuery.tags) /\ Val(AskedQuery.tags) \in {TagsAB, TagsCSpaced, TagsZ})
    => LET given == GivenTags(Val(AskedQuery.tags))
       IN /\ resp.status = 200
          /\ \A t \in Range(resp.data) : Range(t.tags) \cap given # {}
          /\ Supplies(AskedQuery, {"tags"})
                => Range(resp.data)
                      = {t \in InListsOf(Asker) : Range(t.tags) \cap given # {}}

\* tags=a, b returns a task that carries b but not a and one that carries a
\* but not b.
C11_Witness ==
    /\ Asked
    /\ AskedQuery = Query(None, None, None, Some(TagsAB), None, None)
    /\ \E t \in Range(resp.data) : TagB \in Range(t.tags) /\ TagA \notin Range(t.tags)
    /\ \E t \in Range(resp.data) : TagA \in Range(t.tags) /\ TagB \notin Range(t.tags)

\* The calendar day, in the server's time zone, that an instant falls on.
LocalDay(t) == (t + tz) \div DayLen

\* C12: with dueDate a calendar date D as the only criterion, getTasks returns
\* exactly the requester's tasks whose due date falls on day D, from its first
\* instant to its last, and none due at the last instant of the day before or
\* the first instant of the day after.
C12_DueDateDay ==
    (Asked /\ Supplies(AskedQuery, {"dueDate"}) /\ Val(AskedQuery.dueDate).kind = "date")
    => /\ resp.status = 200
       /\ Range(resp.data)
             = {t \in InListsOf(Asker) :
                   /\ IsSome(t.dueDate)
                   /\ LocalDay(Val(t.dueDate)) = Val(AskedQuery.dueDate).v}

\* Whether text contains s as a substring, letter case ignored.
ContainsIgnoringCase(text, s) ==
    \E i \in 1..(Len(text) - Len(s) + 1) :
        \A j \in 1..Len(s) : Lower(text[i + j - 1]) = Lower(s[j])

\* The request's query without its search parameter.
WithoutSearch(q) == [q EXCEPT !.search = None]

\* C13: with a search text, getTasks returns exactly the tasks that the same
\* request without the search returns and whose title or description contains
\* the text as a substring, letter case ignored.
C13_SearchSubstring ==
    (Asked /\ IsSome(AskedQuery.search) /\ Val(AskedQuery.search) # <<>>
          /\ resp.status = 200)
    => Range(resp.data)
          = {t \in Returned(Asker, WithoutSearch(AskedQuery)) :
                \/ ContainsIgnoringCase(t.title, Val(AskedQuery.search))
                \/ /\ IsSome(t.description)
                   /\ ContainsIgnoringCase(Val(t.description), Val(AskedQuery.search))}

\* C14: without taskListId, getTasks succeeds and returns only tasks whose
\* taskListId is a list the requester owns; with no other criterion it returns
\* all of them, over all of the requester's lists; a requester who owns no
\* list gets an empty result whatever the other criteria.
C14_DefaultScope ==
    (Asked /\ AskedQuery.taskListId = None)
    => /\ resp.status = 200
       /\ \A t \in Range(resp.data) :
             /\ t \in tasks
             /\ \E l \in taskLists : l.id = t.taskListId /\ l.userId = Asker
       /\ Supplies(AskedQuery, {}) => Range(resp.data) = InListsOf(Asker)
       /\ (\A l \in taskLists : l.userId # Asker)
             => resp.data = <<>> /\ resp.count = Some(0)

\* A requester gets their task while another user's task stays out.
C14_Witness ==
    /\ Asked
    /\ Supplies(AskedQuery, {})
    /\ Asker = Alice
    /\ resp.data # <<>>
    /\ tasks # InListsOf(Alice)

\* C15: with a taskListId that names no list or another user's list, getTasks
\* answers 404 "Task list not found" without any task; with a list of the
\* requester it returns only tasks of that list, and all of them when no other
\* criterion is supplied.
C15_TaskListIdFilter ==
    (Asked /\ IsSome(AskedQuery.taskListId))
    => LET id == Val(AskedQuery.taskListId)
       IN IF \E l \in taskLists : l.id = id /\ l.userId = Asker
          THEN /\ resp.status = 200
               /\ \A t \in Range(resp.data) : t \in tasks /\ t.taskListId = id
               /\ Supplies(AskedQuery, {"taskListId"})
                     => Range(resp.data) = {t \in tasks : t.taskListId = id}
          ELSE /\ resp = ErrorResponse(404, "Task list not found")
               /\ resp.data = None
               /\ resp.count = None

\* A request for another user's list, which holds a task, answered 404.
C15_Witness ==
    /\ Asked
    /\ Asker = Alice
    /\ IsSome(AskedQuery.taskListId)
    /\ \E l \in taskLists : l.id = Val(AskedQuery.taskListId) /\ l.userId = Bob
    /\ \E t \in tasks : t.taskListId = Val(AskedQuery.taskListId)
    /\ resp.status = 404

\* C16: with a completed parameter, getTasks is never rejected for its value and
\* returns only completed tasks when the value is "true" and only not-completed
\* tasks for any other value ("false", the empty string, another string); with
\* completed as the only criterion it returns exactly those tasks of the
\* requester.
C16_CompletedFilter ==
    (Asked /\ IsSome(AskedQuery.completed))
    => LET wanted == (Val(AskedQuery.completed) = StrTrue)
       IN /\ \/ resp.status = 200
             \/ /\ IsSome(AskedQuery.taskListId)
                /\ resp = ErrorResponse(404, "Task list not found")
          /\ \A t \in Range(resp.data) : t.completed = wanted
          /\ Supplies(AskedQuery, {"completed"})
                => Range(resp.data) = {t \in InListsOf(Asker) : t.completed = wanted}

\* completed= (the empty string) returns a task that is not completed and
\* leaves a completed task of the requester out.
C16_Witness ==
    /\ Asked
    /\ AskedQuery = Query(None, Some(StrEmpty), None, None, None, None)
    /\ resp.data # <<>>
    /\ \E t \in InListsOf(Asker) : t.completed

\* The request's query without its dueDate parameter.
WithoutDueDate(q) == [q EXCEPT !.dueDate = None]

\* C17: with a dueDate that does not parse as a date, getTasks succeeds and
\* answers exactly as the same request without dueDate does; with the invalid
\* dueDate as the only criterion it returns all the requester's tasks.
C17_InvalidDueDateIgnored ==
    (Asked /\ AskedQuery.dueDate = Some(InvalidDate))
    => /\ resp.status = 200
       /\ resp = getTasks(taskLists, tasks, Asker, WithoutDueDate(AskedQuery), tz).resp
       /\ Supplies(AskedQuery, {"dueDate"}) => Range(resp.data) = InListsOf(Asker)

\* An invalid dueDate next to completed=true returns a completed task, due
\* dates notwithstanding, and leaves a task that is not completed out.
C17_Witness ==
    /\ Asked
    /\ AskedQuery = Query(None, Some(StrTrue), None, None, Some(InvalidDate), None)
    /\ \E t \in Range(resp.data) : IsSome(t.dueDate)
    /\ \E t \in InListsOf(Asker) : ~t.completed

\* A createTask has just answered 201 and the next request is getTaskById of
\* the created task by the same user.
CreatedThenFetched ==
    /\ req.op = "createTask"
    /\ resp.status = 201
    /\ req'.op = "getTaskById"
    /\ req'.uid = req.uid
    /\ req'.params.id = Some(resp.data[1].id)

Spaces == {<<>>, <<" ">>, <<" ", " ">>}

\* Whether title is supplied with its surrounding whitespace removed.
Stripped(supplied, title) ==
    /\ \E pre \in Spaces, post \in Spaces : supplied = pre \o title \o post
    /\ title # <<>> => title[1] # " " /\ title[Len(title)] # " "

\* The other fields of the round trip: completed is false, the priority is the
\* one supplied or medium, the tags are those supplied or none.
FetchedAsCreated(body, fetched) ==
    /\ fetched.completed = FALSE
    /\ fetched.taskListId = Val(body.taskListId)
    /\ fetched.priority = IF IsSome(body.priority) THEN Val(body.priority) ELSE Medium
    /\ Range(fetched.tags) = IF IsSome(body.tags) THEN Range(Val(body.tags)) ELSE {}

\* C18 as stated: a task fetched by id right after its creation, by the same
\* user, has completed = false, the title, priority and tag set supplied, and
\* priority medium and no tag when these were omitted.
C18_AsStated ==
    [][CreatedThenFetched
       => /\ resp'.status = 200
          /\ FetchedAsCreated(Val(req.params.body), resp'.data[1])
          /\ resp'.data[1].title = Val(Val(req.params.body).title)]_vars

\* C18 amended: the same, with the title as supplied less its leading and
\* trailing whitespace.
C18_RoundTrip ==
    [][CreatedThenFetched
       => /\ resp'.status = 200
          /\ FetchedAsCreated(Val(req.params.body), resp'.data[1])
          /\ Stripped(Val(Val(req.params.body).title), resp'.data[1].title)]_vars

\* A task created with a padded title, tags and completed: true but no
\* priority has been fetched by its creator.
C18_Witness ==
    /\ req.op = "getTaskById"
    /\ resp.status = 200
    /\ resp.data[1].title = <<"D", "o", " ", "i", "t">>
    /\ resp.data[1].priority = Medium
    /\ resp.data[1].tags = <<TagB, TagA>>
    /\ ~resp.data[1].completed

\* The stored task with this id.
TaskWithId(T, id) == CHOOSE t \in T : t.id = id

\* A toggleTask is answered 200 in this step.
Toggled == req'.op = "toggleTask" /\ resp'.status = 200

\* C19: a successful toggleTask flips the task's completed flag and changes
\* nothing else; a second successful toggle by the same user right after the
\* first leaves completed as it was before the first, and toggling the result
\* of any toggle once more restores the tasks as they were.
C19_ToggleTwice ==
    [][Toggled
       => LET id == Val(req'.params.id)
              uid == Val(req'.uid)
              old == TaskWithId(tasks, id)
              new == TaskWithId(tasks', id)
          IN /\ new = [old EXCEPT !.completed = ~old.completed]
             /\ tasks' \ {new} = tasks \ {old}
             /\ taskLists' = taskLists
             /\ resp'.data = <<new>>
             /\ toggleTask(taskLists', tasks', uid, id).resp.status = 200
             /\ toggleTask(taskLists', tasks', uid, id).tasks = tasks
             /\ (req.op = "toggleTask" /\ resp.status = 200 /\ req.params.id = req'.params.id)
                   => new.completed = ~resp.data[1].completed]_vars

\* The second of two successive toggles of a task by its owner has returned
\* it to not completed.
C19_Witness ==
    /\ req.op = "toggleTask"
    /\ resp.status = 200
    /\ ~resp.data[1].completed
    /\ \E t \in tasks : t.id = Val(req.params.id) /\ ~t.completed

OwnerOf(id) == (CHOOSE l \in FilterLists : l.id = id).userId

\* The requests for list id that findOneAndDelete let through.
Winners(id) ==
    {i \in DOMAIN deletes : deletes[i].id = id /\ deletes[i].status # 404}

DeleteManyFailed(i) == deletes[i].status = 500

\* C20: among the deleteTaskList requests for one list, running concurrently,
\* at most one gets past the lookup and it is a request of the owner; once
\* the owner has asked exactly one has; that request answers 200 (500 if
\* the storage rejects Task.deleteMany) and every other request answers 404;
\* the list is gone exactly when a request of its owner got past the lookup.
C20_AtomicDelete ==
    \A id \in {l.id : l \in FilterLists} :
        /\ Cardinality(Winners(id)) <= 1
        /\ \A i \in Winners(id) :
               /\ deletes[i].uid = OwnerOf(id)
               /\ deletes[i].status \in {Waiting, 200, 500}
        /\ (\E i \in DOMAIN deletes :
                deletes[i].id = id /\ deletes[i].uid = OwnerOf(id))
               => Cardinality(Winners(id)) = 1
        /\ (\A l \in taskLists : l.id # id) <=> Winners(id) # {}

\* Two requests of the owner for the same list have both been answered, the
\* one that waited for Task.deleteMany 200 and the other 404.
C20_Witness ==
    \E i, j \in DOMAIN deletes :
        /\ i # j
        /\ deletes[i].id = deletes[j].id
        /\ deletes[i].uid = OwnerOf(deletes[i].id)
        /\ deletes[j].uid = OwnerOf(deletes[j].id)
        /\ deletes[i].status = 200
        /\ deletes[j].status = 404
        /\ resp.status = 200

\* The lists that are gone while tasks that reference them are still stored.
Uncleaned == {t.taskListId : t \in tasks} \ {l.id : l \in taskLists}

\* C21: a deleteTaskList whose Task.deleteMany fails after the list was
\* removed answers an error (500), never "Task list deleted successfully";
\* and whenever a list is gone while tasks of it are stored, a request for
\* that list either still waits to run the cleanup or was answered 500.
C21_CleanupFailureSurfaced ==
    /\ (req.op = "deleteTaskList" /\ req.params.fails)
           => (~resp.success /\ resp.status = 500 /\ resp = InternalError)
    /\ \A id \in Uncleaned :
           \E i \in DOMAIN deletes :
               deletes[i].id = id /\ deletes[i].status \in {Waiting, 500}

\* Task.deleteMany failed for a removed list: its tasks are still stored and
\* the request was answered 500.
C21_Witness ==
    /\ req.op = "deleteTaskList" /\ req.params.fails
    /\ resp.status = 500
    /\ Val(req.params.id) \in Uncleaned
    /\ \E i \in DOMAIN deletes : DeleteManyFailed(i) /\ deletes[i].id = Val(req.params.id)

\* The request lacks a field its handler requires.
MissingRequired(r) ==
    \/ r.op = "createTaskList" /\ IsSome(r.uid) /\ Absent(Val(r.params.body).name)
    \/ /\ r.op = "createTask" /\ IsSome(r.uid)
       /\ Val(r.params.body).taskListId = None \/ Absent(Val(r.params.body).title)
    \/ /\ r.op \in {"signup", "login"}
       /\ Absent(Val(r.params.body).email) \/ Absent(Val(r.params.body).password)

\* C22: createTaskList without name, createTask without taskListId or
\* without title, and signup or login without email or password answer 400,
\* whatever list or user the rest of the request names, and leave users,
\* task lists and tasks unchanged.
C22_RequiredFields ==
    [][MissingRequired(req')
       => /\ resp'.status = 400
          /\ ~resp'.success
          /\ users' = users
          /\ taskLists' = taskLists
          /\ tasks' = tasks
          /\ signups' = signups]_vars

\* createTask without title naming a list of another user was answered 400.
C22_Witness ==
    /\ req.op = "createTask" /\ IsSome(req.uid)
    /\ Val(req.params.body).title = None
    /\ IsSome(Val(req.params.body).taskListId)
    /\ \E l \in taskLists :
           l.id = Val(Val(req.params.body).taskListId) /\ l.userId # Val(req.uid)
    /\ resp.status = 400

StoredList(L, id) == {l \in L : l.id = id}

\* C23: a stored task list keeps the userId it was created with, which is
\* the user who created it, and a stored task keeps the taskListId given at
\* its creation, through every create, update, toggle and delete, whatever
\* userId or taskListId an update body carries; ids are never used again.
C23_OwnershipImmutable ==
    [][/\ \A l \in taskLists : l.id < nextListId
       /\ \A t \in tasks : t.id < nextTaskId
       /\ \A l \in taskLists' :
              IF StoredList(taskLists, l.id) # {}
              THEN \A o \in StoredList(taskLists, l.id) : o.userId = l.userId
              ELSE /\ l.id = nextListId
                   /\ req'.op = "createTaskList"
                   /\ l.userId = Val(req'.uid)
       /\ \A t \in tasks' :
              IF FindTask(tasks, t.id) # {}
              THEN \A o \in FindTask(tasks, t.id) : o.taskListId = t.taskListId
              ELSE /\ t.id = nextTaskId
                   /\ req'.op = "createTask"
                   /\ t.taskListId = Val(Val(req'.params.body).taskListId)]_vars

\* An update of a task that named another list succeeded and the task is
\* still in the list of its owner.
C23_Witness ==
    /\ req.op = "updateTask" /\ resp.status = 200
    /\ IsSome(Val(req.params.body).title)
    /\ \E t \in FindTask(tasks, Val(req.params.id)) :
           /\ t.taskListId # Val(Val(req.params.body).taskListId)
           /\ t.title = TitleB
           /\ FindOwnedList(taskLists, t.taskListId, Val(req.uid)) # {}

TaskWithinBounds(t) ==
    /\ Len(t.tags) <= MaxTags
    /\ t.priority \in Priorities
    /\ t.title # <<>>
    /\ Len(t.title) <= TitleMaxLen

ListWithinBounds(l) == l.name # <<>> /\ Len(l.name) <= NameMaxLen

\* The body of a create or update request has a field outside the bounds.
OutOfBounds(r) ==
    /\ r.op \in {"createTask", "updateTask", "createTaskList", "updateTaskList"}
    /\ IsSome(r.uid)
    /\ LET b == Val(r.params.body)
       IN IF r.op \in {"createTask", "updateTask"}
          THEN \/ IsSome(b.title) /\ ~(Len(Trim(Val(b.title))) \in 1..TitleMaxLen)
               \/ IsSome(b.tags) /\ Len(Val(b.tags)) > MaxTags
               \/ IsSome(b.priority) /\ Val(b.priority) \notin Priorities
          ELSE IsSome(b.name) /\ ~(Len(Trim(Val(b.name))) \in 1..NameMaxLen)

\* C24: every stored task has at most 10 tags, a priority among low, medium
\* and high and a title of 1 to 200 characters, every stored list a name of
\* 1 to 100 characters; a create or update request with a field outside
\* these bounds fails and leaves task lists and tasks as they were.
C24_SchemaBounds ==
    [][/\ \A t \in tasks' : TaskWithinBounds(t)
       /\ \A l \in taskLists' : ListWithinBounds(l)
       /\ OutOfBounds(req')
              => (~resp'.success /\ tasks' = tasks /\ taskLists' = taskLists)]_vars

\* No deleteTaskList is between removing its list and removing the tasks,
\* and none had its Task.deleteMany rejected.
DeletesDone == \A i \in DOMAIN deletes : deletes[i].status \in {200, 404}

\* C25: every stored task's taskListId names a stored task list, createTask
\* and deleteTaskList requests on the same list interleaving; the states in
\* which a deleteTaskList has yet to remove the tasks, or failed to, are
\* left out.
C25_ReferentialIntegrity ==
    DeletesDone => \A t \in tasks : \E l \in taskLists : l.id = t.taskListId

\* C26: in one process connectDatabase is invoked at most once, however many
\* requests arrive before the first invocation has finished (an invocation
\* that follows a failed one is not counted against this), and once
\* dbInitialized is true it stays true and no request invokes connectDatabase.
C26_InitOnce ==
    [][~serverless.exited
       => /\ serverless'.connectCalls <= 1 + serverless'.failures
          /\ serverless.dbInitialized
                 => /\ serverless'.dbInitialized
                    /\ serverless'.connectCalls = serverless.connectCalls]_vars

\* C27: when the database initialization of a request fails, the request is
\* answered 500 with { success: false, error: 'Database connection failed' },
\* no route answers it, and the process goes on serving.
C27_InitFailureAnswered ==
    [][serverless'.failures > serverless.failures
       => /\ resp' = DatabaseFailed
          /\ resp'.status = 500 /\ ~resp'.success
          /\ ~serverless'.exited]_vars

\* The toggleTask requests on task id that succeeded, and those in flight.
ToggledOk(id) == {i \in DOMAIN toggles : toggles[i].id = id /\ toggles[i].status = 200}
ToggleWaiting(id) == {i \in DOMAIN toggles : toggles[i].id = id /\ toggles[i].status = Waiting}

\* C28: once two toggleTask requests of the owner on one task have both
\* succeeded and none is in flight, the task's completed flag equals its
\* value before the two requests, however their reads and saves interleaved.
C28_NoLostToggle ==
    \A t \in tasks :
        (ToggleWaiting(t.id) = {} /\ Cardinality(ToggledOk(t.id)) = 2)
            => \E o \in TaskPool : o.id = t.id /\ o.completed = t.completed

TaskFields == {"title", "description", "completed", "priority", "dueDate", "tags"}
ListFields == {"name", "description", "color"}

\* new is old but for fields that body carries.
OnlyGivenChanged(old, new, body, fields) ==
    /\ DOMAIN new = DOMAIN old
    /\ \A f \in DOMAIN old : (f \notin fields \/ body[f] = None) => new[f] = old[f]

C30_DeleteOnlyTarget ==
    [][(req'.op \in {"deleteTask", "deleteTaskList"} /\ IsSome(req'.uid))
       => LET id == Val(req'.params.id)
          IN /\ users' = users
             /\ resp'.status = 404 => (tasks' = tasks /\ taskLists' = taskLists)
             /\ (resp'.success /\ req'.op = "deleteTask")
                    => /\ Cardinality(FindTask(tasks, id)) = 1
                       /\ tasks' = tasks \ FindTask(tasks, id)
                       /\ taskLists' = taskLists
             /\ (resp'.success /\ req'.op = "deleteTaskList")
                    => /\ Cardinality(StoredList(taskLists, id)) = 1
                       /\ taskLists' = taskLists \ StoredList(taskLists, id)
                       /\ tasks' = {t \in tasks : t.taskListId # id}]_vars

\* The first list was deleted from the full store: its two tasks are gone,
\* the other lists and their three tasks are stored.
C30_Witness ==
    /\ req.op = "deleteTaskList" /\ resp.status = 200
    /\ Val(req.params.id) = 1
    /\ taskLists = {l \in FilterLists : l.id # 1}
    /\ tasks = {t \in TaskPool : t.taskListId # 1}
    /\ Cardinality(tasks) = 3
====
